---- MODULE Spec2Model ----
(***************************************************************************)
(* Model of the analytics pages of the LiveData dashboards:                *)
(*   src/pages/05_Gold.py      (the Gold page, one script run)             *)
(*   src/pages/03_📊_HHIS.py   (the historical-returns page, script runs)  *)
(* Numbers are exact rationals <<num, den>> with den > 0; NaN is <<0, 0>>. *)
(* A standard deviation is carried as its square (the sample variance),    *)
(* so that every value stays rational.                                     *)
(***************************************************************************)
EXTENDS Integers, Sequences, FiniteSets, TLC

----------------------------------------------------------------------------
(* Bounds of the model *)

MaxLen == 5          \* longest price series with consecutive trading days
MaxPrice == 3        \* prices are 1..MaxPrice
MaxGapLen == 2       \* longest price series whose dates have gaps
DaysPerMonth == 2    \* calendar scaled down: days per calendar month
MaxLookback == 2     \* the momentum window is 1..MaxLookback rows
MaxQuotes == 3       \* longest price series of the historical-returns page
MaxHorizon == 2      \* the horizon sliders offer 1..MaxHorizon days
MaxSims == 2         \* the simulation slider offers 1..MaxSims paths
MaxDraws == 4        \* most draws (horizon * paths) of one simulation
MaxRuns == 2         \* script runs of the historical-returns page
trading_days == 2    \* days per year of the annualisation (line 67), scaled down
MaxRawLen == 2          \* longest series with repeated dates, missing or negative closes
MaxScale == 2           \* largest factor a price series is rebased by
VolWindow == 2          \* rows of the rolling volatility window (30 on the page)
MaxTabs == 2            \* worksheets ever added to the spreadsheet
MaxRows == 2            \* rows of the watchlist frame handed to a save
MaxSheetRows == 2       \* tickers in column A of the sheet before a save
MaxActs == 2            \* edits and button clicks of one watchlist session

MonthsPerYear == 12
DaysPerWeek == 7
Quintiles == 5       \* pd.qcut(test["past20"], 5, labels=False)
QuantileNum == 5     \* ret_series.quantile(0.05) is the quantile 5 / 100
QuantileDen == 100

----------------------------------------------------------------------------
(* Exact arithmetic with NaN *)

NaN == <<0, 0>>
IsNaN(x) == x[2] = 0
notna(x) == x[2] # 0

Abs(n) == IF n < 0 THEN -n ELSE n

RECURSIVE GCD(_, _)
GCD(a, b) == IF b = 0 THEN a ELSE GCD(b, a % b)

\* the rational n/d in lowest terms, d # 0
Rat(n, d) ==
    LET s == IF d < 0 THEN -1 ELSE 1
        g == GCD(Abs(n), Abs(d))
    IN  <<(s * n) \div g, (s * d) \div g>>

Zero == <<0, 1>>
One == <<1, 1>>
Hundred == <<100, 1>>
FromInt(k) == <<k, 1>>

RAdd(a, b) == IF IsNaN(a) \/ IsNaN(b) THEN NaN
              ELSE Rat(a[1] * b[2] + b[1] * a[2], a[2] * b[2])
RSub(a, b) == IF IsNaN(a) \/ IsNaN(b) THEN NaN
              ELSE Rat(a[1] * b[2] - b[1] * a[2], a[2] * b[2])
RMul(a, b) == IF IsNaN(a) \/ IsNaN(b) THEN NaN
              ELSE Rat(a[1] * b[1], a[2] * b[2])
\* a / b; the model's divisors are never zero (prices are positive)
RDiv(a, b) == IF IsNaN(a) \/ IsNaN(b) \/ b[1] = 0 THEN NaN
              ELSE Rat(a[1] * b[2], a[2] * b[1])

\* comparisons are False as soon as one side is NaN
RLt(a, b) == notna(a) /\ notna(b) /\ a[1] * b[2] < b[1] * a[2]
RLeq(a, b) == notna(a) /\ notna(b) /\ a[1] * b[2] <= b[1] * a[2]
RGt(a, b) == RLt(b, a)

RMax(a, b) == IF RLt(a, b) THEN b ELSE a

----------------------------------------------------------------------------
(* Series helpers (pandas / numpy operations on one column) *)

Range(s) == {s[i] : i \in 1..Len(s)}

\* the sequence f as an explicit tuple of its values
AsSeq(f) == SubSeq(f, 1, Len(f))

RECURSIVE SumSeq(_)
SumSeq(s) == IF s = << >> THEN Zero ELSE RAdd(s[1], SumSeq(Tail(s)))

RECURSIVE ProdSeq(_)
ProdSeq(s) == IF s = << >> THEN One ELSE RMul(s[1], ProdSeq(Tail(s)))

\* Series.dropna(): the non-NaN values, in order
dropna(s) == SelectSeq(s, notna)

\* Series.fillna(0)
fillna0(s) == AsSeq([i \in 1..Len(s) |-> IF IsNaN(s[i]) THEN Zero ELSE s[i]])

\* 1 + s, element by element
OnePlus(s) == AsSeq([i \in 1..Len(s) |-> RAdd(One, s[i])])

\* Series.prod() / np.prod on a window without NaN
prod(s) == ProdSeq(s)

\* Series.prod(): NaN values are skipped, the empty product is 1
prod_skipna(s) == ProdSeq(dropna(s))

\* Series.cumprod() (no NaN in the argument)
cumprod(s) == AsSeq([i \in 1..Len(s) |-> ProdSeq(SubSeq(s, 1, i))])

RECURSIVE MaxSeq(_)
MaxSeq(s) == IF Len(s) = 1 THEN s[1] ELSE RMax(s[1], MaxSeq(Tail(s)))

\* Series.cummax()
cummax(s) == AsSeq([i \in 1..Len(s) |-> MaxSeq(SubSeq(s, 1, i))])

\* Series.mean(): NaN skipped, NaN when nothing is left
mean(s) ==
    LET v == dropna(s)
    IN  IF v = << >> THEN NaN ELSE RDiv(SumSeq(v), FromInt(Len(v)))

\* square of Series.std() (ddof = 1): NaN with fewer than 2 observations
std_sq(s) ==
    LET v == dropna(s)
        m == mean(v)
        d == AsSeq([i \in 1..Len(v) |-> RMul(RSub(v[i], m), RSub(v[i], m))])
    IN  IF Len(v) < 2 THEN NaN ELSE RDiv(SumSeq(d), FromInt(Len(v) - 1))

\* a slip in the return: the change in price, not divided by the price before
pct_change_diff(p) ==
    AsSeq([i \in 1..Len(p) |-> IF i = 1 THEN NaN ELSE RSub(p[i], p[i - 1])])

\* a slip in the return: the price ratio, without the - 1
pct_change_ratio(p) ==
    AsSeq([i \in 1..Len(p) |-> IF i = 1 THEN NaN ELSE RDiv(p[i], p[i - 1])])

\* a slip in the return: the change is divided by the current price
pct_change_by_current(p) ==
    AsSeq([i \in 1..Len(p) |->
              IF i = 1 THEN NaN ELSE RDiv(RSub(p[i], p[i - 1]), p[i])])

\* Series.pct_change(): NaN in the first row, p[i] / p[i-1] - 1 after it
pct_change(p) ==
    AsSeq([i \in 1..Len(p) |->
              IF i = 1 THEN NaN ELSE RSub(RDiv(p[i], p[i - 1]), One)])

\* Series.idxmin(): position of the first row holding the minimum
idxmin(s) ==
    CHOOSE i \in 1..Len(s) :
        /\ \A j \in 1..Len(s) : RLeq(s[i], s[j])
        /\ \A j \in 1..(i - 1) : RLt(s[i], s[j])

\* Series.idxmax(): position of the first row holding the maximum
idxmax(s) ==
    CHOOSE i \in 1..Len(s) :
        /\ \A j \in 1..Len(s) : RLeq(s[j], s[i])
        /\ \A j \in 1..(i - 1) : RLt(s[j], s[i])

\* Series.min()
min(s) == s[idxmin(s)]

RatLess(a, b) == a[1] * b[2] < b[1] * a[2]

\* the values of s at the positions that satisfy P, in order
Pick(s, P(_)) ==
    LET idx == SelectSeq([i \in 1..Len(s) |-> i], P)
    IN  AsSeq([k \in 1..Len(idx) |-> s[idx[k]]])

\* Series.quantile(num/den) / np.percentile: linear interpolation between the
\* order statistics at position (n - 1) * num / den; NaN on an empty sample
quantile(s, num, den) ==
    LET v == SortSeq(dropna(s), RatLess)
        n == Len(v)
        lo == ((n - 1) * num) \div den
        fr == Rat(((n - 1) * num) % den, den)
    IN  IF n = 0 THEN NaN
        ELSE IF lo + 1 >= n THEN v[n]
        ELSE RAdd(v[lo + 1], RMul(fr, RSub(v[lo + 2], v[lo + 1])))

----------------------------------------------------------------------------
(* Calendar of the date index: a date is a day number *)

MonthIndex(d) == d \div DaysPerMonth            \* months since the epoch
MonthNumber(m) == (m % MonthsPerYear) + 1       \* index.month, 1..12
day_name(d) == d % DaysPerWeek                  \* index.day_name(), as a number

----------------------------------------------------------------------------
VARIABLES
    page,                \* which script is running: "gold" or "hhis"
    pc,                  \* the section of the script that runs next
    quotes,              \* fetch_histo_quotes(): rows [date, close]
    lookback,            \* the momentum window (rows)
    Gold_History_Table,  \* the columns of the Gold page's table
    mean_daily, std_daily_sq,   \* std_daily_sq is the square of std_daily
    max_dd, dd_end, dd_start,   \* dd_end, dd_start are row positions
    annual_return,
    annual_vol_sq,       \* the square of annual_vol
    sharpe,              \* annual_return / annual_vol kept as the pair
                         \* [ret |-> annual_return, vol_sq |-> annual_vol ^ 2],
                         \* or SharpeNaN
    sharpe_text,         \* the sentence describe_sharpe(sharpe) returns
    monthly_ret, month_stats, dow_stats,
    var_95, cvar_95,
    test,                \* the rows (positions) kept by dropna on past20, future20
    past20_bucket,       \* test["past20_bucket"], aligned with test
    bucket_perf,
    momentum_comment,    \* the sentence of lines 303-321
    raised               \* the exception that ended the script, or "none"

metricVars == <<mean_daily, std_daily_sq, max_dd, dd_end, dd_start,
                annual_return, annual_vol_sq, sharpe, sharpe_text>>
seasonVars == <<monthly_ret, month_stats, dow_stats>>
tailVars == <<var_95, cvar_95>>
momentumVars == <<test, past20_bucket, bucket_perf, momentum_comment>>
goldVars == <<lookback, Gold_History_Table, metricVars, seasonVars,
              tailVars, momentumVars>>

VARIABLES
    Ticker_Price_log,    \* the price log of the page, sorted by date
    returns,             \* Ticker_Price_log["Return"].dropna()
    mu, sigma_sq,        \* returns.mean(), square of returns.std()
    bell,                \* what the bell-curve section showed
    sim_horizon, n_sims, \* the sliders of the Monte Carlo section
    sims,                \* rng.choice(...): sims[d][k] is day d of path k
    sim_cum_rets,
    pcts,                \* [p05, p50, p95]
    montecarlo,          \* what the Monte Carlo section showed
    horizon, rolling_ret,
    parametric,          \* what the parametric price range section showed
    summary,             \* what the quant summary box showed
    shown,               \* what the Monte Carlo section of the run before showed
    runs                 \* script runs so far

hhisVars == <<Ticker_Price_log, returns, mu, sigma_sq, bell, sim_horizon, n_sims, sims, sim_cum_rets,
              pcts, montecarlo, horizon, rolling_ret, parametric, summary, shown, runs>>

VARIABLES
    df,                  \* the frame handed to save_watchlist_to_sheet
    prevent_empty,
    worksheet,           \* the "Watchlist" tab of the spreadsheet
    saved,               \* what save_watchlist_to_sheet returned, or "none"
    secrets,             \* st.secrets: "configured", "blank" or "missing" [sheets]
    wl_session,          \* st.session_state of the watchlist page
    wl_run,              \* the last script run: its event and its locals
    user                 \* what the user has done in the session so far

watchVars == <<df, prevent_empty, worksheet, saved, secrets, wl_session, wl_run, user>>

VARIABLES
    storage,             \* where portfolios are kept: the local JSON file, or the
                         \* index tab and the portfolio tabs of the spreadsheet
                         \* with the cached index listing
    call,                \* the storage function called last, with its arguments
    result,              \* what that call returned
    session,             \* st.session_state of the portfolios page
    rendered,            \* the widgets the last script run rendered
    event                \* the widget event that started the last script run

portVars == <<storage, call, result, session, rendered, event>>

vars == <<page, pc, raised, quotes, goldVars, hhisVars, watchVars, portVars>>

\* a frame without a "Ticker" column, and a spreadsheet without the tab
NoFrame == [has |-> FALSE, Ticker |-> << >>]
NoWorksheet == [exists |-> FALSE, A |-> << >>, B |-> << >>]

\* the watchlist page's variables while another page runs
NoWatchSession ==
    [has |-> FALSE, watchlist |-> << >>, watchlist_saved_sig |-> << >>,
     wl_last_edit_ts |-> 0]
NoWatchRun ==
    [kind |-> "none", ended |-> "none", current_sig |-> << >>, last_saved_sig |-> << >>,
     save_now |-> "none", autosaved |-> FALSE]
NoUser == [acts |-> 0, touched |-> FALSE, boot |-> "none"]
SessionIdle ==
    /\ secrets = "configured" /\ wl_session = NoWatchSession
    /\ wl_run = NoWatchRun /\ user = NoUser

WatchIdle ==
    /\ df = NoFrame /\ prevent_empty = TRUE
    /\ worksheet = NoWorksheet /\ saved = "none"
    /\ SessionIdle

DEFAULT_PORTFOLIO_NAME == "Main Portfolio"
PortfolioNames == {DEFAULT_PORTFOLIO_NAME, "A"}

\* no portfolio file, an empty spreadsheet, nothing cached
NoRows == [n \in PortfolioNames |-> << >>]
NoFile == [exists |-> FALSE, has |-> {}, rows |-> NoRows]
NoTabs == [ids |-> {}, rows |-> [i \in 1..MaxTabs |-> << >>]]
Cold == [warm |-> FALSE, recs |-> << >>]
NoCall == [op |-> "none", name |-> "", df |-> << >>, prevent_empty |-> TRUE]
NoResult == [ok |-> FALSE, df |-> << >>]
\* st.session_state of a new session, nothing rendered, no widget touched
NoSession == [selected_portfolio |-> "", confirm_delete_target |-> "", loaded |-> {}]
NothingShown ==
    [names |-> << >>, selected |-> "", delete_btn |-> FALSE, confirm |-> FALSE,
     save |-> FALSE]
NoEvent == [kind |-> "none", name |-> "", df |-> << >>]

FreshStorage(configured) ==
    [sheets |-> configured, file |-> NoFile, index |-> << >>, tabs |-> NoTabs,
     next_id |-> 1, cache |-> Cold, failed |-> FALSE]

\* the portfolios page's variables while another page runs
PortIdle ==
    /\ storage = FreshStorage(FALSE) /\ call = NoCall /\ result = NoResult
    /\ session = NoSession /\ rendered = NothingShown /\ event = NoEvent

----------------------------------------------------------------------------
(* The Gold page, src/pages/05_Gold.py *)

\* np.nan as a Sharpe ratio
SharpeNaN == [ret |-> NaN, vol_sq |-> NaN]

EmptyTable ==
    [date |-> << >>, price |-> << >>, ret |-> << >>, cum_growth |-> << >>,
     cum_index |-> << >>, running_max |-> << >>, drawdown |-> << >>,
     past20 |-> << >>, future20 |-> << >>, vol_30d_sq |-> << >>]

GapChoices == {1, DaysPerMonth, 2 * DaysPerMonth, MonthsPerYear * DaysPerMonth}

\* dates of n rows: the first day is 0, each next day is a gap later
Dates(gaps) ==
    [i \in 1..(Len(gaps) + 1) |->
        IF i = 1 THEN 0 ELSE SumSeq([j \in 1..(i - 1) |-> FromInt(gaps[j])])[1]]

\* the rows the provider returns, newest first
QuoteRows(dates, closes) ==
    [i \in 1..Len(closes) |->
        [date |-> dates[Len(closes) + 1 - i],
         close |-> FromInt(closes[Len(closes) + 1 - i])]]

QuoteInputs ==
    UNION {
        {QuoteRows([i \in 1..n |-> i - 1], c) : c \in [1..n -> 1..MaxPrice]}
        : n \in 1..MaxLen }
    \cup
    UNION {
        {QuoteRows(Dates(g), c) :
            g \in [1..(n - 1) -> GapChoices], c \in [1..n -> 1..MaxPrice]}
        : n \in 2..MaxGapLen }

\* rows as the provider may also supply them: in any order, a date more than
\* once, a close that is negative or (closes containing NaN) missing
RawRows(n, closes) ==
    {[i \in 1..n |-> [date |-> d[i], close |-> c[i]]] :
        d \in [1..n -> 0..1], c \in [1..n -> closes]}

RawQuoteInputs ==
    UNION {RawRows(n, {NaN, FromInt(-1), FromInt(1)}) : n \in 1..MaxRawLen}

NoPcts == [p05 |-> NaN, p50 |-> NaN, p95 |-> NaN]
NoRun == [sample |-> << >>, sim_horizon |-> 0, n_sims |-> 0, pcts |-> NoPcts]

\* the historical-returns page before it has computed anything
EmptyLog == [date |-> << >>, close |-> << >>]

HHISIdle ==
    /\ Ticker_Price_log = EmptyLog
    /\ returns = << >> /\ mu = NaN /\ sigma_sq = NaN /\ bell = "none"
    /\ sim_horizon = 0 /\ n_sims = 0 /\ sims = << >> /\ sim_cum_rets = << >>
    /\ pcts = NoPcts /\ montecarlo = "none"
    /\ horizon = 0 /\ rolling_ret = << >>
    /\ parametric = "none" /\ summary = "none"
    /\ shown = NoRun /\ runs = 0

InitGold ==
    /\ page = "gold"
    /\ pc = "tables"
    /\ quotes \in QuoteInputs \cup RawQuoteInputs
    /\ lookback \in 1..MaxLookback
    /\ Gold_History_Table = EmptyTable
    /\ mean_daily = NaN /\ std_daily_sq = NaN
    /\ max_dd = NaN /\ dd_end = 0 /\ dd_start = 0
    /\ annual_return = NaN /\ annual_vol_sq = NaN /\ sharpe = SharpeNaN /\ sharpe_text = "none"
    /\ monthly_ret = << >> /\ month_stats = << >> /\ dow_stats = << >>
    /\ var_95 = NaN /\ cvar_95 = NaN
    /\ test = << >> /\ past20_bucket = << >> /\ bucket_perf = << >>
    /\ momentum_comment = "none"
    /\ raised = "none"
    /\ HHISIdle
    /\ WatchIdle
    /\ PortIdle

\* sort_values("date") sorts with the default kind, quicksort, which is not
\* stable: rows of the same date may come out in any order; the outcomes are
\* all the orders of the rows with non-decreasing dates
ByDate(r1, r2) == r1.date < r2.date
sort_values(rows) ==
    IF \A i, j \in 1..Len(rows) : i # j => rows[i].date # rows[j].date
    THEN {SortSeq(rows, ByDate)}
    ELSE {AsSeq([i \in 1..Len(rows) |-> rows[p[i]]]) :
             p \in {q \in [1..Len(rows) -> 1..Len(rows)] :
                      /\ \A i, j \in 1..Len(rows) : i # j => q[i] # q[j]
                      /\ \A i \in 1..(Len(rows) - 1) :
                            rows[q[i]].date <= rows[q[i + 1]].date}}

\* index.duplicated(keep="last"): True for every row but the last of its date
duplicated_last(rows, i) == \E j \in (i + 1)..Len(rows) : rows[j].date = rows[i].date

\* lines 46-61: the price table, indexed by date
Tables ==
    /\ page = "gold" /\ pc = "tables"
    /\ \E sorted \in sort_values(quotes) :
       LET priced == SelectSeq(sorted, LAMBDA r : notna(r.close))
           keep == {i \in 1..Len(priced) : ~duplicated_last(priced, i)}
           rows == SelectSeq([i \in 1..Len(priced) |-> [row |-> priced[i], at |-> i]],
                             LAMBDA x : x.at \in keep)
       IN  Gold_History_Table' =
               [EmptyTable EXCEPT
                   !.date = AsSeq([i \in 1..Len(rows) |-> rows[i].row.date]),
                   !.price = AsSeq([i \in 1..Len(rows) |-> rows[i].row.close])]
    /\ pc' = "transforms"
    /\ UNCHANGED <<hhisVars, watchVars, portVars, page, raised, quotes, lookback, metricVars, seasonVars,
                   tailVars, momentumVars>>

\* a slip in the running maximum: the maximum of the rows before the current one
running_max_before(cum_index) ==
    AsSeq([i \in 1..Len(cum_index) |->
              IF i = 1 THEN cum_index[1] ELSE MaxSeq(SubSeq(cum_index, 1, i - 1))])

\* line 85: the running maximum of the cumulative index
running_max_of(cum_index) == cummax(cum_index)

\* line 82: 100 * cum_growth / cum_growth.iloc[0]
cum_index_of(cum_growth) ==
    AsSeq([i \in 1..Len(cum_growth) |->
              RDiv(RMul(Hundred, cum_growth[i]), cum_growth[1])])

\* line 86: cum_index / running_max - 1
drawdown_of(cum_index, running_max) ==
    AsSeq([i \in 1..Len(cum_index) |->
              RSub(RDiv(cum_index[i], running_max[i]), One)])

\* line 159 (and 89): the square of std * sqrt(trading_days)
annual_vol_sq_of(std_d_sq) == RMul(std_d_sq, FromInt(trading_days))

\* a slip in the window: one row too long, the rows i-w .. i
rolling_wide(x, w) ==
    AsSeq([i \in 1..Len(x) |->
        IF i <= w \/ \E j \in (i - w)..i : IsNaN(x[j])
        THEN << >> ELSE SubSeq(x, i - w, i)])

\* Series.rolling(w): the window of row i is the rows i-w+1 .. i; it is empty
\* (its result NaN) until w rows are there and wherever it would hold a NaN
rolling(x, w) ==
    AsSeq([i \in 1..Len(x) |->
        IF i < w \/ \E j \in (i - w + 1)..i : IsNaN(x[j])
        THEN << >> ELSE SubSeq(x, i - w + 1, i)])

\* line 89: ret.rolling(30).std() * np.sqrt(trading_days), kept as its square
vol_30d_sq_of(ret, w) ==
    LET win == rolling(ret, w)
    IN  AsSeq([i \in 1..Len(win) |->
            IF Len(win[i]) = 0 THEN NaN ELSE annual_vol_sq_of(std_sq(win[i]))])

\* lines 67-90: returns, cumulative performance, drawdown, rolling volatility; on a table without
\* rows cum_growth.iloc[0] (line 82) raises IndexError
QuantTransforms ==
    /\ page = "gold" /\ pc = "transforms"
    /\ Gold_History_Table.price # << >>
    /\ raised' = raised
    /\ \E price \in {Gold_History_Table.price} :
       \E ret \in {pct_change(price)} :
       \E cum_growth \in {cumprod(OnePlus(fillna0(ret)))} :
       \E cum_index \in {cum_index_of(cum_growth)} :
       \E running_max \in {running_max_of(cum_index)} :
       \E drawdown \in {drawdown_of(cum_index, running_max)} :
           Gold_History_Table' =
               [Gold_History_Table EXCEPT
                   !.ret = ret, !.cum_growth = cum_growth, !.cum_index = cum_index,
                   !.running_max = running_max, !.drawdown = drawdown,
                   !.vol_30d_sq = vol_30d_sq_of(ret, VolWindow)]
    /\ pc' = "metrics"
    /\ UNCHANGED <<hhisVars, watchVars, portVars, page, quotes, lookback, metricVars, seasonVars,
                   tailVars, momentumVars>>

\* line 82 on a table without rows
QuantTransformsFails ==
    /\ page = "gold" /\ pc = "transforms"
    /\ Gold_History_Table.price = << >>
    /\ pc' = "crashed" /\ raised' = "IndexError"
    /\ UNCHANGED <<hhisVars, watchVars, portVars, page, quotes, lookback, Gold_History_Table, metricVars,
                   seasonVars, tailVars, momentumVars>>

\* line 164: the peak of the worst drawdown, searched in the rows up to dd_end
dd_start_of(cum_index, end) == idxmax(SubSeq(cum_index, 1, end))

RECURSIVE RPow(_, _)
RPow(x, k) == IF k = 0 THEN One ELSE RMul(RPow(x, k - 1), x)

\* lines 158-159: annual_return = (1 + mean_daily) ** trading_days - 1 and the
\* square of annual_vol = std_daily * sqrt(trading_days)
annual_return_of(mean_d) == RSub(RPow(RAdd(One, mean_d), trading_days), One)

\* a slip in the guard: a Sharpe ratio of 0 where the volatility is not positive
sharpe_zero_when_flat(ann_ret, ann_vol_sq) ==
    IF RGt(ann_vol_sq, Zero) THEN [ret |-> ann_ret, vol_sq |-> ann_vol_sq]
    ELSE [ret |-> Zero, vol_sq |-> One]

\* line 160: annual_return / annual_vol if annual_vol > 0 else np.nan
\* (annual_vol > 0 exactly when its square is > 0; a NaN compares False)
sharpe_of(ann_ret, ann_vol_sq) ==
    IF RGt(ann_vol_sq, Zero) THEN [ret |-> ann_ret, vol_sq |-> ann_vol_sq]
    ELSE SharpeNaN

\* lines 264-274: the sentence for a Sharpe ratio. The three sentences for a
\* ratio >= 0 (weak below 0.5, decent below 1.0, strong) are one outcome here
describe_sharpe(s) ==
    IF s = SharpeNaN THEN "could not be computed"
    ELSE IF RLt(s.ret, Zero) THEN "negative overall"
    ELSE "weak, decent or strong"

\* lines 152-164 (and again 196-208): top-level metrics
TopLevelMetrics ==
    /\ page = "gold" /\ pc = "metrics"
    /\ \E mean_d \in {mean(Gold_History_Table.ret)} :
       \E std_d_sq \in {std_sq(Gold_History_Table.ret)} :
       \E ann_ret \in {annual_return_of(mean_d)} :
       \E ann_vol_sq \in {annual_vol_sq_of(std_d_sq)} :
       \E s \in {sharpe_of(ann_ret, ann_vol_sq)} :
          /\ mean_daily' = mean_d
          /\ std_daily_sq' = std_d_sq
          /\ annual_return' = ann_ret
          /\ annual_vol_sq' = ann_vol_sq
          /\ sharpe' = s
          /\ sharpe_text' = describe_sharpe(s)
    /\ max_dd' = min(Gold_History_Table.drawdown)
    /\ \E end \in {idxmin(Gold_History_Table.drawdown)} :
          /\ dd_end' = end
          /\ dd_start' = dd_start_of(Gold_History_Table.cum_index, end)
    /\ pc' = "seasonality"
    /\ UNCHANGED <<hhisVars, watchVars, portVars, page, raised, quotes, lookback, Gold_History_Table, seasonVars,
                   tailVars, momentumVars>>

\* the lambda of lines 214 and 439: (1 + x).prod() - 1, NaN skipped by prod()
compound_month(x) == RSub(prod_skipna(OnePlus(x)), One)

\* lines 211-216: ret.resample("M").apply(...): one row for every calendar month
\* from the month of the first date to the month of the last date; the lambda
\* is applied to the returns of that month, also when the month has no row
resample_M(date, ret) ==
    LET first == MonthIndex(date[1])
        last == MonthIndex(date[Len(date)])
    IN  AsSeq([k \in 1..(last - first + 1) |->
            [month |-> first + k - 1,
             monthly_ret |->
                 compound_month(Pick(ret,
                     LAMBDA i : MonthIndex(date[i]) = first + k - 1))]])

\* .agg(["mean", "std", "count"]) of one group; count is the number of non-NaN
agg(vals) == [mean |-> mean(vals), std_sq |-> std_sq(vals), count |-> Len(dropna(vals))]

\* lines 218-222: monthly_ret.groupby(monthly_ret.index.month)
month_stats_of(monthly) ==
    [m \in {MonthNumber(monthly[k].month) : k \in 1..Len(monthly)} |->
        agg(Pick([k \in 1..Len(monthly) |-> monthly[k].monthly_ret],
                 LAMBDA k : MonthNumber(monthly[k].month) = m))]

\* line 227: Gold_History_Table.groupby("dow")["ret"]
dow_stats_of(date, ret) ==
    [d \in {day_name(date[i]) : i \in 1..Len(date)} |->
        agg(Pick(ret, LAMBDA i : day_name(date[i]) = d))]

\* lines 210-229 (and again 436-455): month-of-year and day-of-week statistics
Seasonality ==
    /\ page = "gold" /\ pc = "seasonality"
    /\ \E monthly \in {resample_M(Gold_History_Table.date, Gold_History_Table.ret)} :
          /\ monthly_ret' = monthly
          /\ month_stats' = month_stats_of(monthly)
    /\ dow_stats' = dow_stats_of(Gold_History_Table.date, Gold_History_Table.ret)
    /\ pc' = "tailrisk"
    /\ UNCHANGED <<hhisVars, watchVars, portVars, page, raised, quotes, lookback, Gold_History_Table, metricVars,
                   tailVars, momentumVars>>

\* a slip in the tail: the returns at or above the threshold are averaged
cvar_of_upper_tail(ret_series, var) ==
    mean(SelectSeq(ret_series, LAMBDA r : RLeq(var, r)))

\* line 236: ret_series[ret_series <= var_95].mean()
cvar_of(ret_series, var) == mean(SelectSeq(ret_series, LAMBDA r : RLeq(r, var)))

\* lines 231-236 (and again 490-496): historical VaR and CVaR of the daily returns
TailRisk ==
    /\ page = "gold" /\ pc = "tailrisk"
    /\ \E ret_series \in {dropna(Gold_History_Table.ret)} :
       \E var \in {quantile(ret_series, QuantileNum, QuantileDen)} :
          /\ var_95' = var
          /\ cvar_95' = cvar_of(ret_series, var)
    /\ pc' = "momentum"
    /\ UNCHANGED <<hhisVars, watchVars, portVars, page, raised, quotes, lookback, Gold_History_Table, metricVars,
                   seasonVars, momentumVars>>

\* the lambda of lines 240, 242, 524, 526: np.prod(1 + x) - 1
compound(x) == RSub(prod(OnePlus(x)), One)

\* a slip in the shift: one row short, so the forward window starts at row i
shift_back_short(x, k) ==
    AsSeq([i \in 1..Len(x) |-> IF i + k - 1 <= Len(x) THEN x[i + k - 1] ELSE NaN])

\* Series.shift(-k): row i takes the value of row i + k, the last k rows NaN
shift_back(x, k) ==
    AsSeq([i \in 1..Len(x) |-> IF i + k <= Len(x) THEN x[i + k] ELSE NaN])

\* line 240: (1 + ret).rolling(lookback).apply(lambda x: np.prod(1 + x) - 1)
past20_of(ret, w) ==
    LET win == rolling(OnePlus(ret), w)
    IN  AsSeq([i \in 1..Len(win) |->
            IF Len(win[i]) = 0 THEN NaN ELSE compound(win[i])])

\* lines 241-243: the same on (1 + ret).shift(-lookback)
future20_of(ret, w) ==
    LET win == rolling(shift_back(OnePlus(ret), w), w)
    IN  AsSeq([i \in 1..Len(win) |->
            IF Len(win[i]) = 0 THEN NaN ELSE compound(win[i])])

\* the bin edges of pd.qcut(vals, q): the quantiles 0/q, 1/q, .., q/q
qcut_bins(vals, q) == [k \in 0..q |-> quantile(vals, k, q)]

\* pd.qcut raises ValueError("Bin edges must be unique") on repeated edges
qcut_raises(vals, q) ==
    Cardinality({qcut_bins(vals, q)[k] : k \in 0..q}) < q + 1

\* pd.qcut(vals, q, labels=False): bins are right-closed, the lowest included
qcut(vals, q) ==
    LET bins == qcut_bins(vals, q)
    IN  AsSeq([i \in 1..Len(vals) |->
            IF vals[i] = bins[0] THEN 0
            ELSE Cardinality({k \in 0..q : RLt(bins[k], vals[i])}) - 1])

\* line 249: test.groupby("past20_bucket")["future20"].mean()
bucket_perf_of(bucket, future) ==
    [b \in Range(bucket) |-> mean(Pick(future, LAMBDA i : bucket[i] = b))]

\* lines 303-321: the buckets with the highest and the lowest mean future
\* return (idxmax, idxmin: the first such bucket) are compared by their labels;
\* bucket_perf is None (here << >>) when no row has both windows
momentum_comment_of(perf) ==
    IF perf = << >> THEN "not enough data"
    ELSE LET first(P(_)) == CHOOSE b \in DOMAIN perf :
                               P(b) /\ \A c \in DOMAIN perf : (c < b) => ~P(c)
             best_bucket == first(LAMBDA b : \A c \in DOMAIN perf : RLeq(perf[c], perf[b]))
             worst_bucket == first(LAMBDA b : \A c \in DOMAIN perf : RLeq(perf[b], perf[c]))
         IN  IF best_bucket > worst_bucket THEN "momentum tilt"
             ELSE IF best_bucket < worst_bucket THEN "mean-reverting tilt"
             ELSE "no strong monotonic relationship"

\* lines 238-250 (and again 522-534): momentum against mean reversion, and the
\* sentence the summary draws from it (lines 303-321)
Momentum ==
    /\ page = "gold" /\ pc = "momentum"
    /\ \E ret \in {Gold_History_Table.ret} :
       \E past20 \in {past20_of(ret, lookback)} :
       \E future20 \in {future20_of(ret, lookback)} :
       \E rows \in {SelectSeq([i \in 1..Len(ret) |-> i],
                              LAMBDA i : notna(past20[i]) /\ notna(future20[i]))} :
       \E past \in {AsSeq([k \in 1..Len(rows) |-> past20[rows[k]]])} :
       \E future \in {AsSeq([k \in 1..Len(rows) |-> future20[rows[k]]])} :
          /\ Gold_History_Table' =
                 [Gold_History_Table EXCEPT !.past20 = past20, !.future20 = future20]
          /\ test' = rows
          /\ IF rows = << >>
             THEN /\ past20_bucket' = << >> /\ bucket_perf' = << >>
                  /\ momentum_comment' = momentum_comment_of(<< >>)
                  /\ pc' = "done" /\ raised' = raised
             ELSE IF qcut_raises(past, Quintiles)
             THEN /\ past20_bucket' = << >> /\ bucket_perf' = << >>
                  /\ momentum_comment' = momentum_comment
                  /\ pc' = "crashed" /\ raised' = "ValueError"
             ELSE \E bucket \in {qcut(past, Quintiles)} :
                  \E perf \in {bucket_perf_of(bucket, future)} :
                  /\ past20_bucket' = bucket
                  /\ bucket_perf' = perf
                  /\ momentum_comment' = momentum_comment_of(perf)
                  /\ pc' = "done" /\ raised' = raised
    /\ UNCHANGED <<hhisVars, watchVars, portVars, page, quotes, lookback, metricVars, seasonVars, tailVars>>

NextGold == Tables \/ QuantTransforms \/ QuantTransformsFails \/ TopLevelMetrics \/ Seasonality \/ TailRisk
            \/ Momentum

SpecGold == InitGold /\ [][NextGold]_vars

----------------------------------------------------------------------------
(* The historical-returns page, src/pages/03_📊_HHIS.py *)

\* the Gold page's variables while the other page runs
GoldIdle ==
    /\ lookback = 0
    /\ Gold_History_Table = EmptyTable
    /\ mean_daily = NaN /\ std_daily_sq = NaN
    /\ max_dd = NaN /\ dd_end = 0 /\ dd_start = 0
    /\ annual_return = NaN /\ annual_vol_sq = NaN /\ sharpe = SharpeNaN /\ sharpe_text = "none"
    /\ monthly_ret = << >> /\ month_stats = << >> /\ dow_stats = << >>
    /\ var_95 = NaN /\ cvar_95 = NaN
    /\ test = << >> /\ past20_bucket = << >> /\ bucket_perf = << >>
    /\ momentum_comment = "none"

TickerQuotes ==
    UNION {
        {QuoteRows([i \in 1..n |-> i - 1], c) : c \in [1..n -> 1..MaxPrice]}
        : n \in 1..MaxQuotes }
    \cup
    UNION {RawRows(n, {FromInt(-1), FromInt(1)}) : n \in 1..MaxRawLen}

InitHHIS ==
    /\ page = "hhis"
    /\ pc = "pricelog"
    /\ raised = "none"
    /\ quotes \in TickerQuotes
    /\ GoldIdle
    /\ HHISIdle
    /\ WatchIdle
    /\ PortIdle

\* lines 57-61 and 75-77: the price log sorted by date, and its daily returns
PriceLog ==
    /\ page = "hhis" /\ pc = "pricelog"
    /\ \E log \in sort_values(quotes) :
       \E close \in {AsSeq([i \in 1..Len(log) |-> log[i].close])} :
          /\ Ticker_Price_log' =
                 [date |-> AsSeq([i \in 1..Len(log) |-> log[i].date]), close |-> close]
          /\ returns' = dropna(pct_change(close))
    /\ runs' = runs + 1
    /\ pc' = "bell"
    /\ UNCHANGED <<parametric, summary>>
    /\ UNCHANGED <<goldVars, watchVars, portVars, page, raised, quotes, mu, sigma_sq, bell, sim_horizon,
                   n_sims, sims, sim_cum_rets, pcts, montecarlo, horizon,
                   rolling_ret, shown>>

\* line 285: scipy's gaussian_kde(returns) raises ValueError on a single
\* observation and LinAlgError when the sample has no variance
gaussian_kde_raises(sample) ==
    IF Len(sample) < 2 THEN "ValueError"
    ELSE IF std_sq(sample) = Zero THEN "LinAlgError"
    ELSE "none"

\* lines 258-307: statistics of the returns and the bell-curve chart
BellCurve ==
    /\ page = "hhis" /\ pc = "bell"
    /\ IF returns = << >>
       THEN /\ bell' = "warning"
            /\ pc' = "montecarlo"
            /\ UNCHANGED <<mu, sigma_sq, raised>>
       ELSE /\ mu' = mean(returns)
            /\ sigma_sq' = std_sq(returns)
            /\ IF gaussian_kde_raises(returns) = "none"
               THEN bell' = "chart" /\ pc' = "montecarlo" /\ raised' = raised
               ELSE bell' = "none" /\ pc' = "crashed"
                    /\ raised' = gaussian_kde_raises(returns)
    /\ UNCHANGED <<parametric, summary>>
    /\ UNCHANGED <<goldVars, watchVars, portVars, page, quotes, Ticker_Price_log, returns, sim_horizon,
                   n_sims, sims,
                   sim_cum_rets, pcts, montecarlo, horizon, rolling_ret, shown, runs>>

\* line 485: rng.choice(ret_array, size=(sim_horizon, n_sims), replace=True) with
\* rng = np.random.default_rng(): every cell is some element of the sample;
\* draw[d][k] is the position drawn for day d of path k
choice(ret_array, draw) ==
    [d \in 1..Len(draw) |-> [k \in 1..Len(draw[d]) |-> ret_array[draw[d][k]]]]

\* a slip in the compounding: a path carries on from the path before it
path_cum_ret_carried(cells, k) ==
    RSub(ProdSeq([j \in 1..k |->
             ProdSeq([d \in 1..Len(cells) |-> RAdd(One, cells[d][j])])]), One)

\* one column of line 488, (1 + sims).prod(axis=0) - 1
path_cum_ret(cells, k) ==
    RSub(ProdSeq([d \in 1..Len(cells) |-> RAdd(One, cells[d][k])]), One)

\* line 488: one cumulative return per path
sim_cum_rets_of(cells, n) == AsSeq([k \in 1..n |-> path_cum_ret(cells, k)])

\* lines 494-496: np.percentile(sim_cum_rets, q) * 100
percentile100(x, q) == RMul(quantile(x, q, 100), Hundred)

\* lines 474-496: bootstrap of the historical daily returns
MonteCarlo ==
    /\ page = "hhis" /\ pc = "montecarlo"
    /\ \/ /\ returns = << >>
          /\ montecarlo' = "warning"
          /\ UNCHANGED <<sim_horizon, n_sims, sims, sim_cum_rets, pcts>>
       \/ /\ returns # << >>
          /\ \E h \in 1..MaxHorizon, n \in 1..MaxSims :
                /\ h * n <= MaxDraws
                /\ \E draw \in [1..h -> [1..n -> 1..Len(returns)]] :
                   \E cells \in {choice(returns, draw)} :
                   \E cum \in {sim_cum_rets_of(cells, n)} :
                      /\ sim_horizon' = h /\ n_sims' = n
                      /\ sims' = cells
                      /\ sim_cum_rets' = cum
                      /\ pcts' = [p05 |-> percentile100(cum, 5),
                                  p50 |-> percentile100(cum, 50),
                                  p95 |-> percentile100(cum, 95)]
          /\ montecarlo' = "simulated"
    /\ pc' = "parametric"
    /\ UNCHANGED <<parametric, summary>>
    /\ UNCHANGED <<goldVars, watchVars, portVars, page, raised, quotes, Ticker_Price_log, returns, mu, sigma_sq, bell,
                   horizon, rolling_ret, shown, runs>>

\* lines 536-563: the parametric price range, from mu, sigma and last_price of
\* the bell-curve section
Parametric ==
    /\ page = "hhis" /\ pc = "parametric"
    /\ parametric' = IF returns = << >> THEN "warning" ELSE "estimate"
    /\ pc' = "empirical"
    /\ UNCHANGED <<goldVars, watchVars, portVars, page, raised, quotes, Ticker_Price_log, returns,
                   mu, sigma_sq, bell, sim_horizon, n_sims, sims, sim_cum_rets, pcts,
                   montecarlo, horizon, rolling_ret, summary, shown, runs>>

\* lines 264-269: the names mu, sigma, median, skew_val, kurt_val are assigned in
\* the else branch of the bell-curve section only
stats_assigned(sample) == sample # << >>

\* lines 612-663: the quant summary box; it has no guard, and reading sigma
\* (line 618) raises NameError when the name was never assigned
QuantSummary ==
    /\ page = "hhis" /\ pc = "summary"
    /\ IF stats_assigned(returns)
       THEN summary' = "shown" /\ pc' = "done" /\ raised' = raised
       ELSE summary' = "none" /\ pc' = "crashed" /\ raised' = "NameError"
    /\ UNCHANGED <<goldVars, watchVars, portVars, page, quotes, Ticker_Price_log, returns,
                   mu, sigma_sq, bell, sim_horizon, n_sims, sims, sim_cum_rets, pcts,
                   montecarlo, horizon, rolling_ret, parametric, shown, runs>>

\* the lambda of line 584: (1 + x).prod() - 1
compound_window(x) == RSub(prod(OnePlus(x)), One)

\* lines 581-586: (1 + returns).rolling(horizon).apply(...).dropna()
rolling_ret_of(sample, w) ==
    LET win == rolling(OnePlus(sample), w)
    IN  dropna(AsSeq([i \in 1..Len(win) |->
            IF Len(win[i]) = 0 THEN NaN ELSE compound_window(win[i])]))

\* lines 572-586: rolling returns over the chosen horizon
Empirical ==
    /\ page = "hhis" /\ pc = "empirical"
    /\ \/ /\ returns = << >>
          /\ UNCHANGED <<horizon, rolling_ret>>
       \/ /\ returns # << >>
          /\ \E h \in 1..MaxHorizon :
                /\ horizon' = h
                /\ rolling_ret' = rolling_ret_of(returns, h)
    /\ pc' = "summary"
    /\ UNCHANGED <<parametric, summary>>
    /\ UNCHANGED <<goldVars, watchVars, portVars, page, raised, quotes, Ticker_Price_log, returns, mu, sigma_sq, bell,
                   sim_horizon, n_sims, sims, sim_cum_rets, pcts, montecarlo,
                   shown, runs>>

\* a widget change (the sliders of lines 477-478, 576) makes the framework run
\* the script again from the top, on the same cached quotes
Rerun ==
    /\ page = "hhis" /\ pc \in {"done", "crashed"}
    /\ runs < MaxRuns
    /\ shown' = IF montecarlo = "simulated"
                THEN [sample |-> returns, sim_horizon |-> sim_horizon,
                      n_sims |-> n_sims, pcts |-> pcts]
                ELSE shown
    /\ Ticker_Price_log' = EmptyLog
    /\ returns' = << >> /\ mu' = NaN /\ sigma_sq' = NaN /\ bell' = "none"
    /\ sim_horizon' = 0 /\ n_sims' = 0 /\ sims' = << >> /\ sim_cum_rets' = << >>
    /\ pcts' = NoPcts /\ montecarlo' = "none"
    /\ horizon' = 0 /\ rolling_ret' = << >>
    /\ parametric' = "none" /\ summary' = "none"
    /\ pc' = "pricelog" /\ raised' = "none"
    /\ UNCHANGED <<goldVars, watchVars, portVars, page, quotes, runs>>

NextHHIS == PriceLog \/ BellCurve \/ MonteCarlo \/ Parametric \/ Empirical \/ QuantSummary

SpecHHIS == InitHHIS /\ [][NextHHIS]_vars

NextHHISReruns == NextHHIS \/ Rerun

SpecHHISReruns == InitHHIS /\ [][NextHHISReruns]_vars

----------------------------------------------------------------------------
(* The watchlist page, src/pages/01_ 👀_Watchlist.py *)

\* A cell is a string, kept as the sequence of its characters; None is the
\* missing value of an object column.
None == <<"None">>
Header == <<"T", "i", "c", "k", "e", "r">>
Space == " "

\* Series.astype(str): None becomes the text "None"
astype_str(c) == IF c = None THEN <<"N", "o", "n", "e">> ELSE c

upper_char(ch) ==
    CASE ch = "a" -> "A" [] ch = "m" -> "M" [] ch = "n" -> "N"
      [] ch = "o" -> "O" [] ch = "e" -> "E" [] OTHER -> ch

\* Series.str.upper()
upper(s) == [i \in 1..Len(s) |-> upper_char(s[i])]

RECURSIVE lstrip(_)
lstrip(s) == IF s # << >> /\ Head(s) = Space THEN lstrip(Tail(s)) ELSE s

RECURSIVE rstrip(_)
rstrip(s) ==
    IF s # << >> /\ s[Len(s)] = Space THEN rstrip(SubSeq(s, 1, Len(s) - 1)) ELSE s

\* Series.str.strip()
strip(s) == rstrip(lstrip(AsSeq(s)))

NotEmptyText(t) == t # << >>

\* lines 95-99
normalize_watch_df(frame) ==
    LET col == IF frame.has THEN frame.Ticker ELSE << >>
        out == [i \in 1..Len(col) |-> strip(upper(astype_str(col[i])))]
    IN  [has |-> TRUE, Ticker |-> SelectSeq(out, NotEmptyText)]

\* lines 155-162: the tab, created with the header in A1 when it is missing
open_or_create_worksheet(ws) ==
    IF ws.exists THEN ws ELSE [exists |-> TRUE, A |-> <<Header>>, B |-> << >>]

\* ws.batch_clear(["A2:A"]): the cells of column A below the first row
batch_clear(ws) == [ws EXCEPT !.A = SubSeq(ws.A, 1, IF Len(ws.A) >= 1 THEN 1 ELSE 0)]

\* ws.update("A1", data): the rows of data written down column A from A1;
\* cells below the written range keep their value
update(ws, data) ==
    [ws EXCEPT !.A = data \o SubSeq(ws.A, Len(data) + 1, Len(ws.A))]

\* what a cell of the edited table can hold
RawCells == {None, << >>, <<" ">>, <<"a">>, <<" ", "A">>, <<"m", " ">>}

Frames ==
    {NoFrame} \cup
    UNION {{[has |-> TRUE, Ticker |-> t] : t \in [1..n -> RawCells]} : n \in 0..MaxRows}

SheetTickers == <<<<"Q">>, <<"A">>, <<"M">>, <<"N">>>>
Note == <<"x">>

Worksheets ==
    {NoWorksheet} \cup
    {[exists |-> TRUE, A |-> <<Header>> \o SubSeq(SheetTickers, 1, k), B |-> b]
        : k \in 0..MaxSheetRows, b \in {<< >>, <<Note, Note>>}}

InitWatchlist ==
    /\ page = "watchlist"
    /\ pc = "save"
    /\ raised = "none"
    /\ quotes = << >>
    /\ GoldIdle
    /\ HHISIdle
    /\ df \in {[f EXCEPT !.Ticker = AsSeq(f.Ticker)] : f \in Frames}
    /\ prevent_empty \in BOOLEAN
    /\ worksheet \in Worksheets
    /\ saved = "none"
    /\ SessionIdle
    /\ PortIdle

\* lines 181-204. batch_clear is a call to the Sheets API inside try/except
\* with pass: when it raises, the function goes on to the update with the
\* column as it was.
save_watchlist_to_sheet ==
    /\ page = "watchlist" /\ pc = "save"
    /\ \E clean \in {normalize_watch_df(df).Ticker} :
          IF prevent_empty /\ clean = << >>
          THEN /\ saved' = "False"
               /\ worksheet' = worksheet
          ELSE \E ws \in {open_or_create_worksheet(worksheet)}, cleared \in BOOLEAN :
                  /\ worksheet' = update(IF cleared THEN batch_clear(ws) ELSE ws,
                                         <<Header>> \o clean)
                  /\ saved' = "True"
    /\ pc' = "done"
    /\ UNCHANGED <<goldVars, hhisVars, portVars, page, raised, quotes, df, prevent_empty,
                   secrets, wl_session, wl_run, user>>

NextWatchlist == save_watchlist_to_sheet

SpecWatchlist == InitWatchlist /\ [][NextWatchlist]_vars

----------------------------------------------------------------------------
(* The watchlist page: one run of the script, lines 275-491 *)

\* the default watchlist QQQ, AAPL, MSFT, a ticker kept as its first letter
DefaultWatchlist == [has |-> TRUE, Ticker |-> <<<<"Q">>, <<"A">>, <<"M">>>>]
EmptyWatchlist == [has |-> TRUE, Ticker |-> << >>]

\* lines 101-103: the hash of the tuple of tickers, kept as the tuple
signature(frame) == IF frame.has THEN frame.Ticker ELSE << >>

\* lines 205-210
sheets_configured(sec) == sec = "configured"

\* lines 164-179: any exception gives an empty frame; the tab is created when it
\* is missing. With [sheets] missing from the secrets get_sheet_client ends the
\* script with st.stop(), which "except Exception" does not catch.
get_sheet_snapshot(ws, sec) ==
    IF sec = "missing" THEN {[ws |-> ws, frame |-> EmptyWatchlist, stop |-> TRUE]}
    ELSE IF sec = "blank" THEN {[ws |-> ws, frame |-> EmptyWatchlist, stop |-> FALSE]}
    ELSE LET w == open_or_create_worksheet(ws)
         IN  {[ws |-> ws, frame |-> EmptyWatchlist, stop |-> FALSE],
              [ws |-> w, frame |-> EmptyWatchlist, stop |-> FALSE],
              [ws |-> w,
               frame |-> IF w.A = << >> THEN EmptyWatchlist
                         ELSE normalize_watch_df([has |-> TRUE, Ticker |-> Tail(w.A)]),
               stop |-> FALSE]}

\* lines 181-204 with prevent_empty=True, as a function of the sheet
saved_sheets(ws, tickers) ==
    LET clean == normalize_watch_df([has |-> TRUE, Ticker |-> tickers]).Ticker
        w == open_or_create_worksheet(ws)
    IN  IF clean = << >> THEN {[ws |-> ws, ok |-> FALSE]}
        ELSE {[ws |-> update(batch_clear(w), <<Header>> \o clean), ok |-> TRUE],
              [ws |-> update(w, <<Header>> \o clean), ok |-> TRUE]}

\* lines 278-296: the session bootstrap; stop means that the script ended at line 293
bootstrap(sess, ws, sec) ==
    IF sess.has /\ sec # "missing"
    THEN {[ws |-> ws, sess |-> sess, boot |-> "kept", stop |-> FALSE]}
    ELSE UNION {
            LET df0 == IF r1.frame.Ticker = << >> THEN DefaultWatchlist ELSE r1.frame
                wl == IF sess.has THEN sess.watchlist ELSE normalize_watch_df(df0).Ticker
                boot == IF ~sheets_configured(sec) THEN "local"
                        ELSE IF r1.frame.Ticker = << >> THEN "default" ELSE "sheet"
            IN  {[ws |-> r2.ws,
                  sess |-> [has |-> TRUE, watchlist |-> wl,
                            watchlist_saved_sig |-> signature(r2.frame),
                            wl_last_edit_ts |-> sess.wl_last_edit_ts],
                  boot |-> boot, stop |-> r2.stop]
                    : r2 \in get_sheet_snapshot(r1.ws, sec)}
            : r1 \in (IF sheets_configured(sec) THEN get_sheet_snapshot(ws, sec)
                      ELSE {[ws |-> ws, frame |-> DefaultWatchlist, stop |-> FALSE]}) }

\* line 390: time.time() of the run, of which the model keeps that it differs from
\* the time of the run before
time_after(ts) == IF ts = 1 THEN 2 ELSE 1

\* the autosave test without the signature comparison
autosave_due_any(sec, sess, slow) ==
    /\ sheets_configured(sec)
    /\ sess.watchlist # << >>
    /\ slow

\* lines 482-488: slow says that more than 1.5 s have passed since line 390 of the
\* same run
autosave_due(sec, sess, slow) ==
    /\ sheets_configured(sec)
    /\ signature([has |-> TRUE, Ticker |-> sess.watchlist]) # sess.watchlist_saved_sig
    /\ sess.watchlist # << >>
    /\ slow

\* lines 457-464: "Save Now"
save_now(ws, sess, sec, clicked) ==
    IF ~clicked \/ sess.watchlist = << >>
    THEN {[ws |-> ws, sess |-> sess, save_now |-> "none", raised |-> FALSE]}
    ELSE IF sec # "configured"
    THEN {[ws |-> ws, sess |-> sess, save_now |-> "none", raised |-> TRUE]}
    ELSE {[ws |-> sv.ws,
           sess |-> IF sv.ok
                    THEN [sess EXCEPT !.watchlist_saved_sig =
                                 signature([has |-> TRUE, Ticker |-> sess.watchlist])]
                    ELSE sess,
           save_now |-> IF sv.ok THEN "True" ELSE "False", raised |-> FALSE]
            : sv \in saved_sheets(ws, sess.watchlist)}

\* lines 480-491: the autosave
autosave(ws, sess, sec, slow) ==
    IF autosave_due(sec, sess, slow)
    THEN {[ws |-> sv.ws,
           sess |-> IF sv.ok
                    THEN [sess EXCEPT !.watchlist_saved_sig =
                                 signature([has |-> TRUE, Ticker |-> sess.watchlist])]
                    ELSE sess,
           autosaved |-> sv.ok]
            : sv \in saved_sheets(ws, sess.watchlist)}
    ELSE {[ws |-> ws, sess |-> sess, autosaved |-> FALSE]}

\* a run that ends before the autosave block
Ended(ws, sess, boot, ev, how) ==
    [ws |-> ws, sess |-> sess, boot |-> boot,
     run |-> [NoWatchRun EXCEPT !.kind = ev.kind, !.ended = how]]

\* lines 275-491: the script run that follows event ev
watch_run(ws, sess, sec, ev, slow) ==
    UNION {
        IF b.stop THEN {Ended(b.ws, b.sess, b.boot, ev, "stop")}
        ELSE
        LET edited == IF ev.kind = "edit" THEN ev.frame
                      ELSE [has |-> TRUE, Ticker |-> b.sess.watchlist]
            kept == [b.sess EXCEPT !.watchlist = normalize_watch_df(edited).Ticker,
                                   !.wl_last_edit_ts = time_after(@)]
        IN  IF ev.kind = "reload"
            THEN {Ended(r.ws,
                        [kept EXCEPT !.watchlist = r.frame.Ticker,
                                     !.watchlist_saved_sig = signature(r.frame)],
                        b.boot, ev, "rerun")
                    : r \in get_sheet_snapshot(b.ws, sec)}
            ELSE IF ev.kind = "refresh"
            THEN {Ended(b.ws, kept, b.boot, ev, "rerun")}
            ELSE UNION {
                    IF n.raised
                    THEN {Ended(n.ws, n.sess, b.boot, ev, "exception")}
                    ELSE {[ws |-> a.ws, sess |-> a.sess, boot |-> b.boot,
                           run |-> [kind |-> ev.kind, ended |-> "done",
                                    current_sig |->
                                        signature([has |-> TRUE,
                                                   Ticker |-> n.sess.watchlist]),
                                    last_saved_sig |-> n.sess.watchlist_saved_sig,
                                    save_now |-> n.save_now,
                                    autosaved |-> a.autosaved]]
                            : a \in autosave(n.ws, n.sess, sec, slow)}
                    : n \in save_now(b.ws, kept, sec, ev.kind = "save_now") }
        : b \in bootstrap(sess, ws, sec) }

InitWatchlistPage ==
    /\ page = "watchlist"
    /\ pc = "page"
    /\ raised = "none"
    /\ quotes = << >>
    /\ GoldIdle
    /\ HHISIdle
    /\ PortIdle
    /\ df = NoFrame /\ prevent_empty = TRUE /\ saved = "none"
    /\ worksheet \in {w \in Worksheets : w.B = << >>}
    /\ secrets \in {"configured", "blank", "missing"}
    /\ wl_session = NoWatchSession
    /\ wl_run = NoWatchRun
    /\ user = NoUser

WatchEvent(kind, frame) == [kind |-> kind, frame |-> frame]

\* the Ticker column of the edited table: emptied, a new ticker, a blank or missing
\* cell, a ticker added to the default list
EditedFrames ==
    {[has |-> TRUE, Ticker |-> t]
        : t \in {<< >>, <<<<"a">>>>, <<<<" ">>>>, <<None>>,
                 Append(DefaultWatchlist.Ticker, <<"m", " ">>)}}

WatchRun(ev, act, touch) ==
    /\ page = "watchlist" /\ pc = "page"
    /\ act => user.acts < MaxActs
    /\ \E slow \in BOOLEAN :
       \E out \in watch_run(worksheet, wl_session, secrets, ev, slow) :
          /\ worksheet' = out.ws
          /\ wl_session' = out.sess
          /\ wl_run' = out.run
          /\ raised' = IF out.run.ended = "exception" THEN "Exception" ELSE "none"
          /\ user' = [acts |-> IF act THEN user.acts + 1 ELSE user.acts,
                      touched |-> user.touched \/ touch,
                      boot |-> IF out.boot = "kept" THEN user.boot ELSE out.boot]
    /\ UNCHANGED <<goldVars, hhisVars, portVars, page, pc, quotes, df, prevent_empty,
                   saved, secrets>>

\* the page is opened, or rerun without a change to the table
WatchRerun ==
    /\ page = "watchlist"
    /\ WatchRun(WatchEvent("load", EmptyWatchlist), FALSE, FALSE)

\* st.data_editor, line 345: the table as the user left it
WatchEdit ==
    /\ wl_session.has /\ wl_run.ended \in {"done", "exception"}
    /\ \E f \in EditedFrames : WatchRun(WatchEvent("edit", f), TRUE, TRUE)

\* "Save Now", line 459
WatchSaveNow ==
    /\ wl_run.ended = "done"
    /\ WatchRun(WatchEvent("save_now", EmptyWatchlist), TRUE, TRUE)

\* "Reload from Sheet", line 467
WatchReload ==
    /\ wl_run.ended = "done"
    /\ WatchRun(WatchEvent("reload", EmptyWatchlist), TRUE, FALSE)

\* "Refresh Data (clear cache)", line 473
WatchRefresh ==
    /\ wl_run.ended = "done"
    /\ WatchRun(WatchEvent("refresh", EmptyWatchlist), TRUE, FALSE)

NextWatchlistPage == WatchRerun \/ WatchEdit \/ WatchSaveNow \/ WatchReload \/ WatchRefresh

SpecWatchlistPage == InitWatchlistPage /\ [][NextWatchlistPage]_vars

\* the page is rerun again and again: by the user's clicks elsewhere on the page
\* and by st.rerun()
SpecWatchlistReruns == SpecWatchlistPage /\ WF_vars(WatchRerun)

----------------------------------------------------------------------------
(* The portfolios page, src/pages/02_📂_Portfolios.py: storage *)

\* DEFAULT_PORTFOLIO_TEMPLATE, the Ticker column
DEFAULT_PORTFOLIO_TEMPLATE == <<<<"Q", "Q", "Q">>>>

\* line 353 of sanitize_base: Ticker.fillna("").astype(str).str.strip().str.upper()
sanitize_ticker(c) == upper(strip(IF c = None THEN << >> ELSE c))

sanitize_base(frame) == AsSeq([i \in 1..Len(frame) |-> sanitize_ticker(frame[i])])

\* lines 361-363: the rows with a ticker
normalize(frame) == SelectSeq(sanitize_base(frame), NotEmptyText)

\* the holdings frames handed to write_portfolio, as their Ticker column
HoldingsFrames == {<< >>, <<None>>, <<<<" ">>>>, <<<<"a">>>>}

RemoveAt(seq, k) ==
    IF k \in 1..Len(seq) THEN SubSeq(seq, 1, k - 1) \o SubSeq(seq, k + 1, Len(seq))
    ELSE seq

\* lines 263-279: the store read from the file; a missing or unusable file is
\* replaced by the default store, which is written back
load_local_store(file) ==
    IF file.exists /\ file.has # {} THEN file
    ELSE [exists |-> TRUE, has |-> {DEFAULT_PORTFOLIO_NAME},
          rows |-> [NoRows EXCEPT ![DEFAULT_PORTFOLIO_NAME] = DEFAULT_PORTFOLIO_TEMPLATE]]

\* lines 293-308
write_portfolio_local(s, name, frame, prevent) ==
    LET store == load_local_store(s.file)
        clean == normalize(frame)
    IN  IF clean = << >> /\ prevent
        THEN [s |-> [s EXCEPT !.file = store], ok |-> FALSE, df |-> frame]
        ELSE [s |-> [s EXCEPT !.file = [store EXCEPT !.has = @ \cup {name},
                                                     !.rows[name] = clean]],
              ok |-> TRUE, df |-> clean]

\* lines 310-316
create_portfolio_local(s, name) ==
    LET store == load_local_store(s.file)
    IN  IF name \in store.has
        THEN [s |-> [s EXCEPT !.file = store], ok |-> FALSE]
        ELSE [s |-> [s EXCEPT !.file = [store EXCEPT !.has = @ \cup {name},
                                                     !.rows[name] = << >>]],
              ok |-> TRUE]

\* a slip in the guard: the last portfolio can be deleted
delete_portfolio_local_unguarded(s, name) ==
    LET store == load_local_store(s.file)
    IN  IF name \notin store.has
        THEN [s |-> [s EXCEPT !.file = store], ok |-> FALSE]
        ELSE [s |-> [s EXCEPT !.file = [store EXCEPT !.has = @ \ {name},
                                                     !.rows[name] = << >>]],
              ok |-> TRUE]

\* lines 318-324
delete_portfolio_local(s, name) ==
    LET store == load_local_store(s.file)
    IN  IF name \notin store.has \/ Cardinality(store.has) <= 1
        THEN [s |-> [s EXCEPT !.file = store], ok |-> FALSE]
        ELSE [s |-> [s EXCEPT !.file = [store EXCEPT !.has = @ \ {name},
                                                     !.rows[name] = << >>]],
              ok |-> TRUE]

\* lines 135-146: the rows of the index tab as records; "row" is the row of the
\* sheet, the header being row 1
Records(index) ==
    [i \in 1..Len(index) |->
        [name |-> index[i].name, sheet_id |-> index[i].sheet_id, row |-> i + 1]]

\* a call to the Sheets API has raised
Failed(s) == [s EXCEPT !.failed = TRUE]

\* lines 124-149: _get_index_records, cached by st.cache_data(ttl=60). A read
\* that raises returns [], and that value is what the cache keeps.
get_index_records(s) ==
    IF s.cache.warm THEN {[s |-> s, recs |-> s.cache.recs]}
    ELSE {[s |-> [s EXCEPT !.cache = [warm |-> TRUE, recs |-> Records(s.index)]],
           recs |-> Records(s.index)]}
         \cup
         {[s |-> [Failed(s) EXCEPT !.cache = [warm |-> TRUE, recs |-> << >>]],
           recs |-> << >>]}

HasRecord(recs, name) == \E i \in 1..Len(recs) : recs[i].name = name
\* next(...) over the records: the first one with the name
RecordOf(recs, name) ==
    recs[CHOOSE i \in 1..Len(recs) :
            recs[i].name = name /\ \A j \in 1..(i - 1) : recs[j].name # name]

\* lines 167-186: _create_portfolio_sheet. Any exception gives False; one raised
\* by append_row leaves the new worksheet without an index row.
create_portfolio_sheet(s, name) ==
    {[s |-> Failed(s), ok |-> FALSE]}
    \cup
    UNION {
        IF HasRecord(g.recs, name) THEN {[s |-> g.s, ok |-> FALSE]}
        ELSE IF g.s.next_id > MaxTabs THEN {}
        ELSE LET id == g.s.next_id
                 added == [g.s EXCEPT !.tabs.ids = @ \cup {id},
                                      !.tabs.rows[id] = << >>,
                                      !.next_id = @ + 1]
             IN  {[s |-> [added EXCEPT
                              !.index = Append(@, [name |-> name, sheet_id |-> id]),
                              !.cache = Cold],
                   ok |-> TRUE]}
                 \cup
                 {[s |-> Failed(added), ok |-> FALSE]}
        : g \in get_index_records(s) }

\* lines 217-239: the write itself, for the record r found for the name. An
\* exception raised by ws.update comes after ws.clear().
write_rows(s, r, frame, prevent) ==
    LET clean == normalize(frame)
    IN  IF clean = << >> /\ prevent THEN {[s |-> s, ok |-> FALSE, df |-> frame]}
        ELSE IF r.sheet_id \notin s.tabs.ids
             THEN {[s |-> s, ok |-> FALSE, df |-> frame]}
        ELSE {[s |-> [s EXCEPT !.tabs.rows[r.sheet_id] = clean],
               ok |-> TRUE, df |-> clean]}
             \cup
             {[s |-> Failed(s), ok |-> FALSE, df |-> frame],
              [s |-> [Failed(s) EXCEPT !.tabs.rows[r.sheet_id] = << >>],
               ok |-> FALSE, df |-> frame]}

RECURSIVE ensure_default_portfolio_records(_)
RECURSIVE write_portfolio_sheets(_, _, _, _)

\* lines 151-159: the index records, a default portfolio created first when the
\* listing is empty
ensure_default_portfolio_records(s) ==
    UNION {
        IF g.recs # << >> THEN {g}
        ELSE UNION {
                IF c.ok
                THEN UNION {
                        get_index_records([w.s EXCEPT !.cache = Cold])
                        : w \in write_portfolio_sheets(c.s, DEFAULT_PORTFOLIO_NAME,
                                                       DEFAULT_PORTFOLIO_TEMPLATE, FALSE) }
                ELSE get_index_records(c.s)
                : c \in create_portfolio_sheet(g.s, DEFAULT_PORTFOLIO_NAME) }
        : g \in get_index_records(s) }

\* lines 207-239: the record is looked up, and a portfolio without a record is
\* created, before the holdings are looked at
write_portfolio_sheets(s, name, frame, prevent) ==
    UNION {
        IF HasRecord(e.recs, name)
        THEN write_rows(e.s, RecordOf(e.recs, name), frame, prevent)
        ELSE UNION {
                IF ~c.ok THEN {[s |-> c.s, ok |-> FALSE, df |-> frame]}
                ELSE UNION {
                        IF HasRecord(e2.recs, name)
                        THEN write_rows(e2.s, RecordOf(e2.recs, name), frame, prevent)
                        ELSE {[s |-> e2.s, ok |-> FALSE, df |-> frame]}
                        : e2 \in ensure_default_portfolio_records(c.s) }
                : c \in create_portfolio_sheet(e.s, name) }
        : e \in ensure_default_portfolio_records(s) }

\* lines 241-257: an exception raised by delete_rows comes after del_worksheet
delete_portfolio_sheets(s, name) ==
    UNION {
        IF Len(g.recs) <= 1 \/ ~HasRecord(g.recs, name) THEN {[s |-> g.s, ok |-> FALSE]}
        ELSE LET r == RecordOf(g.recs, name)
                 gone == [g.s EXCEPT !.tabs.ids = @ \ {r.sheet_id},
                                      !.tabs.rows[r.sheet_id] = << >>]
             IN  IF r.sheet_id \notin g.s.tabs.ids THEN {[s |-> g.s, ok |-> FALSE]}
                 ELSE {[s |-> [gone EXCEPT !.index = RemoveAt(@, r.row - 1),
                                           !.cache = Cold],
                        ok |-> TRUE]}
                      \cup
                      {[s |-> Failed(g.s), ok |-> FALSE],
                       [s |-> Failed(gone), ok |-> FALSE]}
        : g \in get_index_records(s) }

\* lines 327-345: the strategy multiplexer
write_portfolio(s, name, frame, prevent) ==
    IF s.sheets THEN write_portfolio_sheets(s, name, frame, prevent)
    ELSE {write_portfolio_local(s, name, frame, prevent)}

create_portfolio(s, name) ==
    IF s.sheets THEN create_portfolio_sheet(s, name) ELSE {create_portfolio_local(s, name)}

delete_portfolio(s, name) ==
    IF s.sheets THEN delete_portfolio_sheets(s, name) ELSE {delete_portfolio_local(s, name)}

InitPortfolios ==
    /\ page = "portfolios"
    /\ pc = "call"
    /\ raised = "none"
    /\ quotes = << >>
    /\ GoldIdle
    /\ HHISIdle
    /\ WatchIdle
    /\ storage \in {FreshStorage(configured) : configured \in BOOLEAN}
    /\ call = NoCall
    /\ result = NoResult
    /\ session = NoSession /\ rendered = NothingShown /\ event = NoEvent

CreatePortfolio ==
    /\ page = "portfolios" /\ pc = "call"
    /\ \E name \in PortfolioNames :
       \E out \in create_portfolio(storage, name) :
          /\ storage' = out.s
          /\ call' = [NoCall EXCEPT !.op = "create", !.name = name]
          /\ result' = [NoResult EXCEPT !.ok = out.ok]
    /\ UNCHANGED <<goldVars, hhisVars, watchVars, page, pc, raised, quotes,
                   session, rendered, event>>

WritePortfolio ==
    /\ page = "portfolios" /\ pc = "call"
    /\ \E name \in PortfolioNames, frame \in HoldingsFrames, prevent \in BOOLEAN :
       \E out \in write_portfolio(storage, name, AsSeq(frame), prevent) :
          /\ storage' = out.s
          /\ call' = [op |-> "write", name |-> name, df |-> AsSeq(frame),
                      prevent_empty |-> prevent]
          /\ result' = [ok |-> out.ok, df |-> out.df]
    /\ UNCHANGED <<goldVars, hhisVars, watchVars, page, pc, raised, quotes,
                   session, rendered, event>>

DeletePortfolio ==
    /\ page = "portfolios" /\ pc = "call"
    /\ \E name \in PortfolioNames :
       \E out \in delete_portfolio(storage, name) :
          /\ storage' = out.s
          /\ call' = [NoCall EXCEPT !.op = "delete", !.name = name]
          /\ result' = [NoResult EXCEPT !.ok = out.ok]
    /\ UNCHANGED <<goldVars, hhisVars, watchVars, page, pc, raised, quotes,
                   session, rendered, event>>

\* st.cache_data(ttl=60): the cached index listing is dropped after a minute
CacheExpires ==
    /\ page = "portfolios"
    /\ storage.cache.warm
    /\ storage' = [storage EXCEPT !.cache = Cold]
    /\ UNCHANGED <<goldVars, hhisVars, watchVars, page, pc, raised, quotes, call, result,
                   session, rendered, event>>

NextPortfolioStore == CreatePortfolio \/ WritePortfolio \/ DeletePortfolio \/ CacheExpires

SpecPortfolioStore == InitPortfolios /\ [][NextPortfolioStore]_vars

----------------------------------------------------------------------------
(* The portfolios page: one run of the script, lines 448-578 *)

\* sorted(...) over the two names of the model
NameOrder == <<"A", DEFAULT_PORTFOLIO_NAME>>
Copies(n, k) == [i \in 1..k |-> n]
CountOf(recs, n) == Cardinality({i \in 1..Len(recs) : recs[i].name = n})
sorted_names(recs) ==
    AsSeq(Copies(NameOrder[1], CountOf(recs, NameOrder[1])))
    \o AsSeq(Copies(NameOrder[2], CountOf(recs, NameOrder[2])))

\* line 188 and line 284, behind list_portfolios (line 327)
list_portfolios(s) ==
    IF s.sheets
    THEN {[s |-> g.s, names |-> sorted_names(g.recs)]
            : g \in ensure_default_portfolio_records(s)}
    ELSE LET store == load_local_store(s.file)
         IN  {[s |-> [s EXCEPT !.file = store],
               names |-> SelectSeq(NameOrder, LAMBDA n : n \in store.has)]}

\* what read_portfolio (lines 191-205, 287-291) does to storage
read_portfolio(s, name) ==
    IF s.sheets
    THEN UNION {{g.s} \cup (IF HasRecord(g.recs, name) THEN {Failed(g.s)} ELSE {})
                  : g \in ensure_default_portfolio_records(s)}
    ELSE {[s EXCEPT !.file = load_local_store(s.file)]}

\* st.cache_data.clear()
cache_clear(s) == [s EXCEPT !.cache = Cold]

ElementsOf(seq) == {seq[i] : i \in 1..Len(seq)}

\* lines 461-477: the add form. Line 473 assigns st.session_state["selected_portfolio"]
\* after the selectbox with that key was instantiated at line 459, which Streamlit
\* answers with StreamlitAPIException.
add_form(s, names, ev) ==
    IF ev.kind = "add" /\ ev.name # "" /\ ev.name \notin ElementsOf(names)
    THEN {[s |-> IF c.ok THEN cache_clear(c.s) ELSE c.s, raised |-> c.ok]
            : c \in create_portfolio(s, ev.name)}
    ELSE {[s |-> s, raised |-> FALSE]}

\* lines 483-500: the confirmation box. Line 493 assigns the selectbox's key too,
\* after the target was popped at line 492.
confirm_box(s, selected, target, ev) ==
    IF target = selected /\ ev.kind = "yes"
    THEN UNION {
            IF d.ok
            THEN {[s |-> l.s, target |-> "", raised |-> TRUE]
                    : l \in list_portfolios(cache_clear(d.s))}
            ELSE {[s |-> d.s, target |-> target, raised |-> FALSE]}
            : d \in delete_portfolio(s, selected) }
    ELSE IF target = selected /\ ev.kind = "cancel"
    THEN {[s |-> s, target |-> "", raised |-> FALSE]}
    ELSE {[s |-> s, target |-> target, raised |-> FALSE]}

\* lines 502-565: the refresh timer, which may end the run with st.rerun(), the
\* session copy of the holdings, and the save button
editor_and_save(s, selected, loaded, ev) ==
    {[s |-> s, loaded |-> loaded, save |-> FALSE]}
    \cup
    UNION {
        IF ev.kind = "save"
        THEN {[s |-> w.s, loaded |-> loaded \cup {selected}, save |-> TRUE]
                : w \in write_portfolio(r, selected, sanitize_base(ev.df), TRUE)}
        ELSE {[s |-> r, loaded |-> loaded \cup {selected}, save |-> TRUE]}
        : r \in (IF selected \in loaded THEN {s} ELSE read_portfolio(s, selected)) }

\* lines 451-565: the script run that follows event ev, from storage s and session
\* state sess
script_run(s, sess, ev) ==
    UNION {
        LET names == IF l.names = << >> THEN <<DEFAULT_PORTFOLIO_NAME>> ELSE l.names
            selected == IF sess.selected_portfolio \in ElementsOf(names)
                        THEN sess.selected_portfolio ELSE names[1]
            picked == [sess EXCEPT !.selected_portfolio = selected]
            target == IF ev.kind = "delete" THEN selected ELSE sess.confirm_delete_target
        IN  UNION {
              IF a.raised
              THEN {[s |-> a.s, session |-> picked, raised |-> "StreamlitAPIException",
                     rendered |-> [names |-> names, selected |-> selected,
                                delete_btn |-> FALSE, confirm |-> FALSE, save |-> FALSE]]}
              ELSE UNION {
                    IF c.raised
                    THEN {[s |-> c.s,
                           session |-> [picked EXCEPT !.confirm_delete_target = c.target],
                           raised |-> "StreamlitAPIException",
                           rendered |-> [names |-> names, selected |-> selected,
                                      delete_btn |-> Len(names) > 1, confirm |-> TRUE,
                                      save |-> FALSE]]}
                    ELSE {[s |-> t.s,
                           session |-> [picked EXCEPT !.confirm_delete_target = c.target,
                                                      !.loaded = t.loaded],
                           raised |-> "none",
                           rendered |-> [names |-> names, selected |-> selected,
                                      delete_btn |-> Len(names) > 1,
                                      confirm |-> (target = selected), save |-> t.save]]
                            : t \in editor_and_save(c.s, selected, sess.loaded, ev)}
                    : c \in confirm_box(a.s, selected, target, ev) }
              : a \in add_form(l.s, names, ev) }
        : l \in list_portfolios(s) }

InitPortfoliosPage ==
    /\ page = "portfolios"
    /\ pc = "page"
    /\ raised = "none"
    /\ quotes = << >>
    /\ GoldIdle
    /\ HHISIdle
    /\ WatchIdle
    /\ storage \in {FreshStorage(configured) : configured \in BOOLEAN}
    /\ call = NoCall
    /\ result = NoResult
    /\ session = NoSession /\ rendered = NothingShown /\ event = NoEvent

\* a script run: the widget's new value is in the session state before the script
\* starts
Run(ev, sess) ==
    /\ page = "portfolios" /\ pc = "page"
    /\ \E out \in script_run(storage, sess, ev) :
          /\ storage' = out.s
          /\ session' = out.session
          /\ rendered' = out.rendered
          /\ raised' = out.raised
    /\ event' = ev
    /\ UNCHANGED <<goldVars, hhisVars, watchVars, page, pc, quotes, call, result>>

\* the page is opened, or the refresh timer or an unrelated widget reruns it
RunLoad ==
    /\ page = "portfolios"
    /\ Run([NoEvent EXCEPT !.kind = "load"], session)

\* the selectbox, line 459
RunSelect ==
    \E o \in ElementsOf(rendered.names) :
        Run([NoEvent EXCEPT !.kind = "select", !.name = o],
            [session EXCEPT !.selected_portfolio = o])

\* the add form's submit button, line 464
RunAdd ==
    /\ rendered.names # << >>
    /\ \E n \in PortfolioNames \cup {""} :
          Run([NoEvent EXCEPT !.kind = "add", !.name = n], session)

\* the delete button, line 480
RunDelete ==
    /\ rendered.delete_btn
    /\ Run([NoEvent EXCEPT !.kind = "delete"], session)

\* "Yes, delete", line 488
RunYes ==
    /\ rendered.confirm
    /\ Run([NoEvent EXCEPT !.kind = "yes"], session)

\* "Cancel", line 499
RunCancel ==
    /\ rendered.confirm
    /\ Run([NoEvent EXCEPT !.kind = "cancel"], session)

\* the data editor's content and the save button, lines 528-565
RunSave ==
    /\ rendered.save
    /\ \E frame \in HoldingsFrames :
          Run([NoEvent EXCEPT !.kind = "save", !.df = AsSeq(frame)], session)

\* the cached index listing is dropped after a minute
PageCacheExpires ==
    /\ page = "portfolios" /\ pc = "page"
    /\ storage.cache.warm
    /\ storage' = cache_clear(storage)
    /\ UNCHANGED <<goldVars, hhisVars, watchVars, page, pc, raised, quotes, call, result,
                   session, rendered, event>>

NextPortfoliosPage ==
    RunLoad \/ RunSelect \/ RunAdd \/ RunDelete \/ RunYes \/ RunCancel \/ RunSave
    \/ PageCacheExpires

SpecPortfoliosPage == InitPortfoliosPage /\ [][NextPortfoliosPage]_vars

----------------------------------------------------------------------------
Init ==
    \/ InitGold \/ InitHHIS \/ InitWatchlist \/ InitWatchlistPage
    \/ InitPortfolios \/ InitPortfoliosPage

Next ==
    \/ NextGold \/ NextHHIS \/ NextWatchlist \/ NextWatchlistPage
    \/ NextPortfolioStore \/ NextPortfoliosPage

Spec == Init /\ [][Next]_vars

\* the two pages that compute returns from prices
SpecReturns == (InitGold \/ InitHHIS) /\ [][NextGold \/ NextHHIS]_vars

----------------------------------------------------------------------------
(* Properties *)

\* every quote of the fetched history carries a positive close
PositiveQuotes == \A i \in 1..Len(quotes) : RGt(quotes[i].close, Zero)

\* sections of the Gold page that come after the named one
AfterTransforms == {"metrics", "seasonality", "tailrisk", "momentum", "done", "crashed"}
AfterMetrics == {"seasonality", "tailrisk", "momentum", "done", "crashed"}
AfterSeasonality == {"tailrisk", "momentum", "done", "crashed"}
AfterTailRisk == {"momentum", "done", "crashed"}
AfterMomentum == {"done", "crashed"}

\* the growth rebuilt from a return series: (1 + r_1) * ... * (1 + r_n)
RECURSIVE Growth(_)
Growth(r) == IF r = << >> THEN One
             ELSE RMul(Growth(SubSeq(r, 1, Len(r) - 1)), RAdd(One, r[Len(r)]))

\* C1: a price series of n >= 2 positive prices yields exactly n - 1 returns
\* (pct_change, then dropna), and the growth rebuilt from them, which is also the
\* last value of cum_growth, equals price_{n-1} / price_0; on both pages.
C1_ReturnRoundTrip ==
    /\ (page = "gold" /\ pc \in AfterTransforms /\ Len(Gold_History_Table.price) >= 2) =>
          LET price == Gold_History_Table.price
              n == Len(price)
              r == dropna(Gold_History_Table.ret)
          IN  /\ Len(r) = n - 1
              /\ Growth(r) = RDiv(price[n], price[1])
              /\ Gold_History_Table.cum_growth[n] = RDiv(price[n], price[1])
    /\ (page = "hhis" /\ pc # "pricelog" /\ Len(Ticker_Price_log.close) >= 2) =>
          LET close == Ticker_Price_log.close
          IN  /\ Len(returns) = Len(close) - 1
              /\ Growth(returns) = RDiv(close[Len(close)], close[1])

\* a series of at least 3 prices that ends away from where it started has been
\* turned into returns
C1_Witness ==
    /\ page = "gold" /\ pc = "metrics"
    /\ Len(Gold_History_Table.price) >= 3
    /\ Gold_History_Table.price[Len(Gold_History_Table.price)] # Gold_History_Table.price[1]
    /\ Gold_History_Table.cum_growth[Len(Gold_History_Table.price)] # One

\* the largest cumulative index among rows 1..i
PeakUpTo(cum_index, i) ==
    CHOOSE m \in {cum_index[j] : j \in 1..i} : \A j \in 1..i : RLeq(cum_index[j], m)

\* cum_index_i / max_{j <= i} cum_index_j - 1
DrawdownAt(cum_index, i) == RSub(RDiv(cum_index[i], PeakUpTo(cum_index, i)), One)

\* C2: the reported max drawdown is the minimum over i of
\* cum_index_i / max_{j<=i} cum_index_j - 1, the trough dd_end is a row where that
\* minimum is attained, and the peak dd_start is the last row at or before the
\* trough at which the running maximum was achieved.
C2_DrawdownEpisode ==
    (page = "gold" /\ pc \in AfterMetrics /\ PositiveQuotes
       /\ Gold_History_Table.cum_index # << >>) =>
        LET ci == Gold_History_Table.cum_index
            n == Len(ci)
        IN  /\ \A i \in 1..n : RLeq(max_dd, DrawdownAt(ci, i))
            /\ \E i \in 1..n : max_dd = DrawdownAt(ci, i)
            /\ dd_end \in 1..n /\ DrawdownAt(ci, dd_end) = max_dd
            /\ dd_start \in 1..dd_end
            /\ ci[dd_start] = PeakUpTo(ci, dd_end)
            /\ \A j \in (dd_start + 1)..dd_end : ci[j] # PeakUpTo(ci, dd_end)

\* C3: every drawdown_i = cum_index_i / running_max_i - 1 is <= 0, and it is 0
\* wherever cum_index_i is a new running maximum (the first row included).
C3_DrawdownNonPositive ==
    (page = "gold" /\ pc \in AfterTransforms) =>
        LET ci == Gold_History_Table.cum_index
            dd == Gold_History_Table.drawdown
        IN  /\ Len(dd) = Len(ci)
            /\ \A i \in 1..Len(ci) :
                  /\ dd[i] = DrawdownAt(ci, i)
                  /\ RLeq(dd[i], Zero)
                  /\ (\A j \in 1..(i - 1) : RLt(ci[j], ci[i])) => dd[i] = Zero

\* a series that sets a new high after its first row and also falls below a high
C3_Witness ==
    /\ page = "gold" /\ pc = "metrics"
    /\ \E i \in 2..Len(Gold_History_Table.cum_index) :
          \A j \in 1..(i - 1) :
              RLt(Gold_History_Table.cum_index[j], Gold_History_Table.cum_index[i])
    /\ \E i \in 1..Len(Gold_History_Table.drawdown) :
          RLt(Gold_History_Table.drawdown[i], Zero)

\* the compounded return of rows a..b of a return column: prod(1 + r_j) - 1
Compounded(ret, a, b) == RSub(Growth(SubSeq(ret, a, b)), One)

\* C4: the rolling compounded-product aggregation (past20 over the lookback rows
\* ending at i, future20 over the lookback rows after i) equals, for every full
\* window of returns r_j, the product of (1 + r_j) minus 1.
C4_CompoundedProduct ==
    (page = "gold" /\ pc \in AfterMomentum /\ PositiveQuotes) =>
        LET ret == Gold_History_Table.ret
            past20 == Gold_History_Table.past20
            future20 == Gold_History_Table.future20
        IN  \A i \in 1..Len(ret) :
               /\ notna(past20[i]) =>
                     past20[i] = Compounded(ret, i - lookback + 1, i)
               /\ notna(future20[i]) =>
                     future20[i] = Compounded(ret, i + 1, i + lookback)

\* the rows with a full trailing and a full forward window of returns
\* (row 1 carries no return)
Eligible(n, w) == {i \in 1..n : i - w + 1 >= 2 /\ i + w <= n}

\* C5: with N daily returns, no tied trailing returns and lookback = lookahead
\* = L, exactly N - 2L time points are kept, they fall into exactly 5 quintile
\* buckets by trailing-return rank whose populations differ by at most one, and
\* the mean forward return is reported per bucket, lowest quintile first.
C5_MomentumBuckets ==
    LET ret == Gold_History_Table.ret
        N == Len(dropna(ret))
        L == lookback
        rows == Eligible(Len(ret), L)
        trailing(i) == Compounded(ret, i - L + 1, i)
        forward(i) == Compounded(ret, i + 1, i + L)
        population(b) == Cardinality({k \in 1..Len(test) : past20_bucket[k] = b})
        members(b) == {test[k] : k \in {j \in 1..Len(test) : past20_bucket[j] = b}}
        total(b) == SumSeq(SortSeq(
                        [k \in 1..Cardinality(members(b)) |->
                            forward(CHOOSE i \in members(b) :
                                Cardinality({j \in members(b) : j < i}) = k - 1)],
                        RatLess))
    IN  (/\ page = "gold" /\ pc \in AfterMomentum
         /\ N >= 2 * L
         /\ \A i, j \in rows : i # j => trailing(i) # trailing(j))
        =>
        /\ Len(test) = N - 2 * L
        /\ DOMAIN bucket_perf = 0..(Quintiles - 1)
        /\ \A a, b \in DOMAIN bucket_perf : population(a) <= population(b) + 1
        /\ \A j, k \in 1..Len(test) :
              RLt(trailing(test[j]), trailing(test[k])) =>
                  past20_bucket[j] <= past20_bucket[k]
        /\ \A b \in DOMAIN bucket_perf :
              bucket_perf[b] = RDiv(total(b), FromInt(population(b)))

RECURSIVE SumCounts(_, _)
SumCounts(stats, keys) ==
    IF keys = {} THEN 0
    ELSE LET k == CHOOSE x \in keys : TRUE
         IN  stats[k].count + SumCounts(stats, keys \ {k})

\* C6: the counts of month_stats add up to the number of distinct calendar
\* (year, month) pairs that occur among the input dates.
C6_MonthCounts ==
    (page = "gold" /\ pc \in AfterSeasonality) =>
        SumCounts(month_stats, DOMAIN month_stats)
          = Cardinality({MonthIndex(Gold_History_Table.date[i]) :
                            i \in 1..Len(Gold_History_Table.date)})

\* C9: for every non-empty return sample the reported CVaR, the mean of the
\* returns at or below the VaR threshold, is <= the reported VaR, the 0.05
\* quantile of the sample, and no smaller than the worst return.
C9_CVaRBelowVaR ==
    (page = "gold" /\ pc \in AfterTailRisk /\ dropna(Gold_History_Table.ret) # << >>) =>
        LET r == dropna(Gold_History_Table.ret)
            tail == {i \in 1..Len(r) : RLeq(r[i], var_95)}
        IN  /\ tail # {}
            /\ cvar_95 = mean([k \in 1..Cardinality(tail) |->
                              r[CHOOSE i \in tail :
                                  Cardinality({j \in tail : j < i}) = k - 1]])
            /\ RLeq(cvar_95, var_95)
            /\ RLeq(min(r), cvar_95)

\* a sample of several different returns whose CVaR is strictly below its VaR
C9_Witness ==
    /\ page = "gold" /\ pc = "momentum"
    /\ Cardinality(Range(dropna(Gold_History_Table.ret))) >= 3
    /\ RLt(cvar_95, var_95)

\* C10: a stage that receives fewer observations than its minimum (one price for
\* the return builder, fewer than two returns for the descriptive statistics)
\* ends in an InsufficientDataError and not in computed statistics.
C10_InsufficientData ==
    (page = "gold" /\ pc \in AfterMetrics /\ Len(dropna(Gold_History_Table.ret)) < 2) =>
        raised = "InsufficientDataError"

\* C7: two runs of the bootstrap on the same return sample with the same horizon
\* and the same number of paths report the same percentiles.
C7_BootstrapRepeatable ==
    (/\ page = "hhis" /\ montecarlo = "simulated" /\ shown # NoRun
     /\ shown.sample = returns
     /\ shown.sim_horizon = sim_horizon /\ shown.n_sims = n_sims)
    => pcts = shown.pcts

RECURSIVE PathGrowth(_, _, _)
PathGrowth(cells, k, d) ==
    IF d = 0 THEN One ELSE RMul(PathGrowth(cells, k, d - 1), RAdd(One, cells[d][k]))

C12_DegenerateFit ==
    (/\ page = "hhis" /\ pc \notin {"pricelog", "bell"}
     /\ PositiveQuotes
     /\ returns # << >> /\ Cardinality(Range(returns)) = 1)
    => (bell = "warning" /\ pc # "crashed" /\ raised = "none")

\* the Gold page has a flat table: every price equals the first one, a
\* positive price
FlatTable(minLen) ==
    /\ page = "gold" /\ pc \in AfterTailRisk
    /\ Len(Gold_History_Table.price) >= minLen
    /\ RGt(Gold_History_Table.price[1], Zero)
    /\ \A i \in 1..Len(Gold_History_Table.price) :
          Gold_History_Table.price[i] = Gold_History_Table.price[1]

\* what the page reports on a flat table, the standard deviation aside
FlatValues ==
    /\ \A i \in 2..Len(Gold_History_Table.ret) : Gold_History_Table.ret[i] = Zero
    /\ mean_daily = Zero
    /\ \A i \in 1..Len(Gold_History_Table.drawdown) : Gold_History_Table.drawdown[i] = Zero
    /\ var_95 = Zero /\ cvar_95 = Zero

\* C13: for every constant price series with at least 2 points every return is
\* 0, the mean and the standard deviation of the returns are 0, every drawdown
\* is 0, and VaR and CVaR are both 0.
C13_FlatSeries == FlatTable(2) => (FlatValues /\ std_daily_sq = Zero)

\* C13 as amended: the same for every constant price series with at least 3
\* points (at least 2 returns).
C13_FlatSeriesAmended == FlatTable(3) => (FlatValues /\ std_daily_sq = Zero)

\* a flat series of at least 3 prices has gone through the tail-risk section
C13_Witness ==
    /\ FlatTable(3) /\ pc = "momentum"
    /\ Len(dropna(Gold_History_Table.ret)) >= 2
    /\ std_daily_sq = Zero /\ var_95 = Zero

\* the close of the last row the source supplied for a date, among the rows
\* that carry a close
LastSupplied(rows, d) ==
    rows[CHOOSE j \in 1..Len(rows) :
            /\ rows[j].date = d /\ notna(rows[j].close)
            /\ \A k \in (j + 1)..Len(rows) :
                  ~(rows[k].date = d /\ notna(rows[k].close))].close

\* dates strictly increasing, each with the close supplied last for it
LastWriteWins(date, price) ==
    /\ \A i \in 1..(Len(date) - 1) : date[i] < date[i + 1]
    /\ \A i \in 1..Len(date) : price[i] = LastSupplied(quotes, date[i])

\* C14: after the price table is prepared its timestamps are strictly increasing
\* without duplicates, and for a timestamp the source supplied more than once
\* the retained row is the one supplied last; on both pages.
C14_LastWriteWins ==
    /\ (page = "gold" /\ pc # "tables") =>
          LastWriteWins(Gold_History_Table.date, Gold_History_Table.price)
    /\ (page = "hhis" /\ pc # "pricelog") =>
          LastWriteWins(Ticker_Price_log.date, Ticker_Price_log.close)

\* the trailing window of row i, rows i-L+1 .. i, and its forward window, rows
\* i+1 .. i+L
TrailingWindow(i, L) == (i - L + 1)..i
ForwardWindow(i, L) == (i + 1)..(i + L)

\* the aggregate the page computes on a window of returns (see C4 for what it is)
WindowValue(ret, rows) ==
    compound(OnePlus([k \in 1..Cardinality(rows) |->
        ret[CHOOSE i \in rows : Cardinality({j \in rows : j < i}) = k - 1]]))

\* C16: every time point used in the momentum test has a full trailing window of
\* lookback returns ending at it and a full forward window of lookback returns
\* starting after it; the two windows share no return; the time points lacking
\* either window are excluded, and no other.
C16_MomentumWindows ==
    (page = "gold" /\ pc \in AfterMomentum /\ Gold_History_Table.price # << >>) =>
        LET ret == Gold_History_Table.ret
            full(rows) == \A j \in rows : j \in 1..Len(ret) /\ notna(ret[j])
        IN  /\ \A k \in 1..Len(test) :
                  /\ full(TrailingWindow(test[k], lookback))
                  /\ full(ForwardWindow(test[k], lookback))
                  /\ TrailingWindow(test[k], lookback)
                        \cap ForwardWindow(test[k], lookback) = {}
                  /\ Gold_History_Table.past20[test[k]]
                        = WindowValue(ret, TrailingWindow(test[k], lookback))
                  /\ Gold_History_Table.future20[test[k]]
                        = WindowValue(ret, ForwardWindow(test[k], lookback))
            /\ \A i \in 1..Len(ret) :
                  (full(TrailingWindow(i, lookback)) /\ full(ForwardWindow(i, lookback)))
                     <=> (\E k \in 1..Len(test) : test[k] = i)

\* a window of two rows: a time point is used, its neighbours at both ends of
\* the series are excluded
C16_Witness ==
    /\ page = "gold" /\ pc \in AfterMomentum /\ lookback = 2
    /\ Len(test) >= 1
    /\ test[1] > 1 /\ test[Len(test)] < Len(Gold_History_Table.ret)

\* C17: when tied trailing returns make quintile edges coincide, or fewer than 5
\* distinct eligible points exist, the bucketing yields fewer than 5 buckets and
\* the page goes on; bucketing never ends the script with an exception.
C17_BucketingNeverCrashes ==
    (page = "gold" /\ pc \in AfterMomentum /\ test # << >>) =>
        /\ pc = "done" /\ raised = "none"
        /\ Len(past20_bucket) = Len(test)
        /\ Cardinality(DOMAIN bucket_perf) \in 1..Quintiles

\* the mean forward returns ordered by bucket, lowest trailing return first
Increasing(perf) == \A a, b \in DOMAIN perf : (a < b) => RLeq(perf[a], perf[b])
Decreasing(perf) == \A a, b \in DOMAIN perf : (a < b) => RLeq(perf[b], perf[a])

\* C18: the momentum comment says "momentum" only when the mean forward return
\* increases monotonically from the lowest to the highest trailing-return
\* bucket, "mean reversion" only when it decreases monotonically, and gives the
\* inconclusive sentence for every pattern that is not monotonic.
C18_MomentumComment ==
    (page = "gold" /\ pc = "done" /\ bucket_perf # << >>) =>
        /\ (momentum_comment = "momentum tilt") => Increasing(bucket_perf)
        /\ (momentum_comment = "mean-reverting tilt") => Decreasing(bucket_perf)
        /\ (~Increasing(bucket_perf) /\ ~Decreasing(bucket_perf)) =>
              momentum_comment = "no strong monotonic relationship"

\* C19: every month bucket and every weekday bucket of the seasonality output
\* holds at least one return sample: a month or weekday without a return of its
\* own is not reported, neither with count 0 or a NaN mean nor with a made-up
\* return.
C19_NoEmptyBuckets ==
    (/\ page = "gold" /\ pc \in AfterSeasonality
     /\ Gold_History_Table.price # << >>
     /\ PositiveQuotes
     /\ \A i, j \in 1..Len(quotes) : i < j => quotes[i].date < quotes[j].date) =>
        LET date == Gold_History_Table.date
            ret == Gold_History_Table.ret
            sampled == {i \in 1..Len(ret) : notna(ret[i])}
        IN  /\ \A m \in DOMAIN month_stats :
                  /\ month_stats[m].count >= 1 /\ notna(month_stats[m].mean)
                  /\ \E i \in sampled : MonthNumber(MonthIndex(date[i])) = m
            /\ \A k \in 1..Len(monthly_ret) :
                  \E i \in sampled : MonthIndex(date[i]) = monthly_ret[k].month
            /\ \A d \in DOMAIN dow_stats :
                  /\ dow_stats[d].count >= 1 /\ notna(dow_stats[d].mean)
                  /\ \E i \in sampled : day_name(date[i]) = d

\* C20: every row whose price is missing, zero or negative is removed from the
\* price table before a return is computed: every price the return builder uses
\* is a positive number; on both pages.
C20_PositivePrices ==
    /\ (page = "gold" /\ pc # "tables") =>
          \A i \in 1..Len(Gold_History_Table.price) :
              RGt(Gold_History_Table.price[i], Zero)
    /\ (page = "hhis" /\ pc # "pricelog") =>
          \A i \in 1..Len(Ticker_Price_log.close) :
              RGt(Ticker_Price_log.close[i], Zero)

\* C15: save_watchlist_to_sheet called with prevent_empty = True on a watchlist
\* without a non-blank ticker writes nothing and returns False; every other
\* call returns True, leaves column A as the header followed by the tickers
\* (the old data rows cleared), and leaves the other columns as they were.
IsBlank(c) == c = None \/ strip(c) = << >>
NonBlankTickers(frame) ==
    IF frame.has THEN SelectSeq(frame.Ticker, LAMBDA c : ~IsBlank(c)) ELSE << >>
C15_SaveWatchlist ==
    [][(page = "watchlist" /\ pc = "save") =>
          IF prevent_empty /\ NonBlankTickers(df) = << >>
          THEN saved' = "False" /\ worksheet' = worksheet
          ELSE /\ saved' = "True"
               /\ worksheet'.A = <<Header>> \o normalize_watch_df(df).Ticker
               /\ worksheet'.B = worksheet.B]_vars

\* C21: the rolling volatility is aligned with its input (one entry per row);
\* the entry at the k-th return is the aggregate (annualised standard deviation,
\* here squared) of exactly the returns k-w+1 .. k, and the first w-1 returns
\* carry no value. Return k sits in row k + 1, the first row has no return.
C21_RollingAlignment ==
    (page = "gold" /\ pc = "metrics" /\ Gold_History_Table.price # << >>) =>
        LET r == dropna(Gold_History_Table.ret)
            vol == Gold_History_Table.vol_30d_sq
            w == VolWindow
        IN  /\ Len(vol) = Len(Gold_History_Table.price)
            /\ Len(vol) = Len(r) + 1
            /\ IsNaN(vol[1])
            /\ \A k \in 1..Len(r) :
                  IF k <= w - 1 THEN IsNaN(vol[k + 1])
                  ELSE vol[k + 1] =
                         RMul(std_sq(SubSeq(r, k - w + 1, k)), FromInt(trading_days))

C21_Witness ==
    /\ page = "gold" /\ pc = "metrics"
    /\ Len(Gold_History_Table.ret) >= VolWindow + 2
    /\ IsNaN(Gold_History_Table.vol_30d_sq[VolWindow])
    /\ \E i, j \in 1..Len(Gold_History_Table.ret) :
          /\ notna(Gold_History_Table.vol_30d_sq[i])
          /\ notna(Gold_History_Table.vol_30d_sq[j])
          /\ Gold_History_Table.vol_30d_sq[i] # Gold_History_Table.vol_30d_sq[j]

\* the factors of a rebasing: c and 1 / c
ScaleFactors == {Rat(c, 1) : c \in 2..MaxScale} \cup {Rat(1, c) : c \in 2..MaxScale}

\* the drawdown trace the page computes from a price column
DrawdownTrace(price) ==
    LET cum_index == cum_index_of(cumprod(OnePlus(fillna0(pct_change(price)))))
    IN  [cum_index |-> cum_index,
         drawdown |-> drawdown_of(cum_index, running_max_of(cum_index))]

\* C22: the drawdown trace, the max drawdown and the positions of its peak and
\* trough are the same for a price series and for that series with every price
\* multiplied by one positive constant.
C22_RebasingInvariant ==
    (page = "gold" /\ pc = "seasonality" /\ Gold_History_Table.price # << >>) =>
        \A c \in ScaleFactors :
            LET price == Gold_History_Table.price
                rebased == DrawdownTrace([i \in 1..Len(price) |-> RMul(c, price[i])])
            IN  /\ rebased.drawdown = Gold_History_Table.drawdown
                /\ min(rebased.drawdown) = max_dd
                /\ idxmin(rebased.drawdown) = dd_end
                /\ dd_start_of(rebased.cum_index, idxmin(rebased.drawdown)) = dd_start

C22_Witness ==
    /\ page = "gold" /\ pc = "seasonality"
    /\ PositiveQuotes
    /\ RLt(max_dd, Zero)
    /\ 1 < dd_start /\ dd_start < dd_end /\ dd_end < Len(Gold_History_Table.price)

\* C23: when a section of the historical-returns page cannot be computed (the
\* return sample is empty), the section is skipped with a message and every later
\* section still runs: the run reaches its end, the later sections show their
\* own message, the summary is shown, and no exception ends the script.
C23_LaterSectionsRun ==
    (page = "hhis" /\ pc \in {"done", "crashed"} /\ returns = << >>) =>
        /\ bell = "warning" /\ montecarlo = "warning" /\ parametric = "warning"
        /\ summary = "shown"
        /\ pc = "done" /\ raised = "none"

\* the portfolios a store holds, as the page's read functions see them
StoreNames(s) ==
    IF s.sheets THEN {s.index[i].name : i \in 1..Len(s.index)}
    ELSE load_local_store(s.file).has

StoreCount(s) ==
    IF s.sheets THEN Len(s.index) ELSE Cardinality(load_local_store(s.file).has)

SameStore(s, t) ==
    IF s.sheets THEN s.index = t.index /\ s.tabs = t.tabs
    ELSE load_local_store(s.file) = load_local_store(t.file)

\* a step made by the cache timer, not by a call
CacheExpiry ==
    /\ storage.cache.warm /\ storage' = [storage EXCEPT !.cache = Cold]
    /\ UNCHANGED <<call, result, session, rendered, event>>

CallStep(op) == page = "portfolios" /\ pc = "call" /\ call'.op = op /\ ~CacheExpiry

\* no call to the Sheets API has raised, up to and including this step
NoApiError == ~storage'.failed

\* what the delete guard promises
DeleteRefused ==
    (CallStep("delete")
       /\ (call'.name \notin StoreNames(storage) \/ StoreCount(storage) = 1))
    => (~result'.ok /\ SameStore(storage, storage'))

\* C24: after any sequence of create_portfolio, write_portfolio and
\* delete_portfolio calls the store holds at least one portfolio; delete_portfolio
\* on the only remaining portfolio, or on a name that is not there, returns False
\* and leaves the store unchanged.
C24_NeverEmpty ==
    [][/\ ((CallStep("create") \/ CallStep("write") \/ CallStep("delete"))
              /\ NoApiError)
            => StoreCount(storage') >= 1
       /\ DeleteRefused]_vars

\* C24, amended: the same for calls on a store that holds at least one portfolio.
C24_NeverEmptied ==
    [][/\ ((CallStep("create") \/ CallStep("write") \/ CallStep("delete"))
              /\ StoreCount(storage) >= 1)
            => StoreCount(storage') >= 1
       /\ DeleteRefused]_vars

C24_Witness ==
    /\ page = "portfolios" /\ call.op = "delete" /\ ~result.ok
    /\ StoreCount(storage) = 1 /\ call.name \in StoreNames(storage)
    /\ ~storage.failed

\* C25: write_portfolio(name, df, prevent_empty=True) with holdings that hold no
\* non-blank ticker returns (False, df) and leaves storage as it was, in both
\* backends, also when no portfolio of that name exists.
C25_EmptyWriteSkipped ==
    [][(CallStep("write") /\ call'.prevent_empty /\ NoApiError
          /\ \A i \in 1..Len(call'.df) : IsBlank(call'.df[i]))
       => (/\ ~result'.ok /\ result'.df = call'.df
           /\ SameStore(storage, storage'))]_vars

\* the only change from store s to store t is a new, empty portfolio called name
CreatedOnly(s, t, name) ==
    IF s.sheets
    THEN /\ Len(t.index) = Len(s.index) + 1
         /\ SubSeq(t.index, 1, Len(s.index)) = s.index
         /\ t.index[Len(t.index)].name = name
         /\ t.index[Len(t.index)].sheet_id \in t.tabs.ids \ s.tabs.ids
         /\ t.tabs.rows[t.index[Len(t.index)].sheet_id] = << >>
         /\ \A id \in s.tabs.ids : id \in t.tabs.ids /\ t.tabs.rows[id] = s.tabs.rows[id]
    ELSE LET a == load_local_store(s.file)
             b == load_local_store(t.file)
         IN  /\ b.has = a.has \cup {name} /\ name \notin a.has
             /\ b.rows[name] = << >>
             /\ \A n \in a.has : b.rows[n] = a.rows[n]

UniqueNames(s) ==
    s.sheets => \A i, j \in 1..Len(s.index) :
                    (s.index[i].name = s.index[j].name) => i = j

\* C26: portfolio names stay unique: create_portfolio with a name already in the
\* store returns False and changes nothing; a successful create adds exactly one
\* empty portfolio under the name and leaves the holdings of the others unchanged.
C26_UniqueNames ==
    [][(page = "portfolios") =>
          /\ UniqueNames(storage')
          /\ CallStep("create") =>
                IF call'.name \in StoreNames(storage)
                THEN ~result'.ok /\ SameStore(storage, storage')
                ELSE result'.ok => CreatedOnly(storage, storage', call'.name)]_vars

\* a step made by the cache timer while the page is open
PageCacheExpiry ==
    /\ storage.cache.warm /\ storage' = [storage EXCEPT !.cache = Cold]
    /\ UNCHANGED <<session, rendered, event>>

\* a script run of the portfolios page in which no Sheets call has raised so far
PageRunStep ==
    page = "portfolios" /\ pc = "page" /\ ~PageCacheExpiry /\ NoApiError

PortfolioCount(s, P) ==
    IF s.sheets THEN Cardinality({i \in 1..Len(s.index) : s.index[i].name = P})
    ELSE IF P \in load_local_store(s.file).has THEN 1 ELSE 0

Deleted(P) == PortfolioCount(storage', P) < PortfolioCount(storage, P)

\* the clauses of C27 about who deletes and who sets and clears the target
DeleteIsConfirmed ==
    /\ \A P \in PortfolioNames :
          /\ Deleted(P) => /\ event'.kind = "yes"
                           /\ session.selected_portfolio = P
                           /\ session.confirm_delete_target = P
          /\ (session'.confirm_delete_target = P /\ session.confirm_delete_target # P)
                => (event'.kind = "delete" /\ rendered'.selected = P)
    /\ event'.kind = "cancel" => session'.confirm_delete_target = ""
    /\ (\E P \in PortfolioNames : Deleted(P)) => session'.confirm_delete_target = ""

\* C27: a portfolio P is deleted only in a run where "Yes, delete" is clicked while
\* P is selected and confirm_delete_target = P; the target is set to P only by
\* clicking "Delete Portfolio" while P is selected; Cancel and a successful delete
\* clear the target; and after a successful delete the selected portfolio is one
\* of the remaining portfolios.
C27_DeleteConfirmed ==
    [][PageRunStep =>
          /\ DeleteIsConfirmed
          /\ (\E P \in PortfolioNames : Deleted(P))
                => session'.selected_portfolio \in StoreNames(storage')]_vars

WatchlistFrame == [has |-> TRUE, Ticker |-> wl_session.watchlist]

\* the sheet holds the session watchlist below the header
SheetHoldsWatchlist ==
    /\ worksheet.exists
    /\ Len(worksheet.A) >= 1 + Len(wl_session.watchlist)
    /\ SubSeq(worksheet.A, 1, 1 + Len(wl_session.watchlist))
          = <<Header>> \o wl_session.watchlist

\* C28: the autosave writes only when Sheets is configured, the session
\* watchlist is not empty and its signature differs from watchlist_saved_sig;
\* neither the autosave nor "Save Now" writes an empty watchlist; and after every
\* successful save watchlist_saved_sig is the signature of the session watchlist.
C28_AutosaveGuarded ==
    (page = "watchlist" /\ pc = "page") =>
        /\ wl_run.autosaved =>
              /\ sheets_configured(secrets)
              /\ wl_session.watchlist # << >>
              /\ wl_run.current_sig # wl_run.last_saved_sig
        /\ (wl_run.autosaved \/ wl_run.save_now = "True") =>
              /\ wl_session.watchlist # << >>
              /\ SheetHoldsWatchlist
              /\ wl_session.watchlist_saved_sig = signature(WatchlistFrame)

C28_Witness ==
    /\ page = "watchlist" /\ pc = "page"
    /\ wl_run.autosaved /\ wl_run.kind = "edit"
    /\ wl_session.watchlist # << >>
    /\ SheetHoldsWatchlist

\* an unsaved, non-empty session watchlist with Sheets configured
Pending ==
    /\ page = "watchlist" /\ pc = "page"
    /\ sheets_configured(secrets)
    /\ wl_session.has
    /\ wl_session.watchlist # << >>
    /\ signature(WatchlistFrame) # wl_session.watchlist_saved_sig

Synced == wl_session.watchlist_saved_sig = signature(WatchlistFrame)

\* C29: when Sheets is configured and the non-empty session watchlist has a
\* signature other than watchlist_saved_sig, reruns without further edits lead to
\* an autosave, after which watchlist_saved_sig is the current signature.
C29_EventuallyAutosaved == Pending ~> Synced

\* C30: when the sheet read at the start of the session fails or returns nothing,
\* the default watchlist is not written by the autosave unless the user has edited
\* the table or clicked "Save Now".
C30_DefaultNotAutosaved ==
    (/\ page = "watchlist" /\ pc = "page"
     /\ user.boot = "default"
     /\ wl_run.autosaved
     /\ wl_session.watchlist = DefaultWatchlist.Ticker)
    => user.touched

====
